---- MODULE Spec2Model ----
(***************************************************************************)
(* SP-STM firmware: the CP-facing two-wire bus link (comm.c), the message  *)
(* framing with its CRC trailer, and the dispatch loop of the core         *)
(* (vCORE_Run in core.c) with the application handlers of main.c.          *)
(*                                                                         *)
(* Bytes are integers 0..255, 16-bit words integers 0..65535.  A buffer of *)
(* the program is a function on 0..MAXMSGLEN-1; an access outside it is    *)
(* undefined behaviour and is modelled as such (a flag, or a choice over   *)
(* the possible outcomes), never as a wrapped or clamped access.           *)
(***************************************************************************)
EXTENDS Integers, Sequences, FiniteSets, TLC

(***************************************************************************)
(* Program constants (msg.h, comm.h, crc.h)                                *)
(***************************************************************************)
MAXMSGLEN == 64
SP_HEADERSIZE == 4
CRC_SZ == 2
MSG_TYP_IDX == 0
MSG_LEN_IDX == 1
MSG_VER_IDX == 2
MSG_FLAGS_IDX == 3
MSG_PAYLD_IDX == 4
SP_DATAMESSAGE_VERSION == 120
SP_LABELMESSAGE_VERSION == 102

COMMAND_PKT == 1
REPORT_DATA == 2
PROGRAM_CODE == 3
REQUEST_DATA == 4
REQUEST_LABEL == 5
ID_PKT == 6
CONFIRM_COMMAND == 7
REPORT_ERROR == 8
REQUEST_BSL_PW == 9
INTERROGATE == 10
SET_SERIALNUM == 11
COMMAND_SENSOR_TYPE == 12
REQUEST_SENSOR_TYPE == 13
REPORT_LABEL == 10

COMM_OK == 0
COMM_BUFFER_UNDERFLOW == 1
COMM_BUFFER_OVERFLOW == 2
COMM_ERROR == 4
COMM_ACK_ERR == 16

COMM_RUNNING == 1
COMM_TX_BUSY == 2
COMM_RX_BUSY == 4
COMM_PARITY_ERR == 8
COMM_START_CONDITION == 16
SHUTDOWN_BIT == 1

\* pin masks: SDA on P1.1, SCL on P2.2, INT on P2.0
SDA_PIN == 2
SCL_PIN == 4
INT_PIN == 1

CRC_FOR_MSG_TO_SEND == 1
CRC_FOR_MSG_TO_REC == 0

Byte == 0..255

(***************************************************************************)
(* C integer operators on unsigned values                                  *)
(***************************************************************************)
RECURSIVE BitAnd(_, _)
BitAnd(a, b) ==
    IF a = 0 \/ b = 0 THEN 0
    ELSE (IF a % 2 = 1 /\ b % 2 = 1 THEN 1 ELSE 0) + 2 * BitAnd(a \div 2, b \div 2)

RECURSIVE BitOr(_, _)
BitOr(a, b) ==
    IF a = 0 THEN b
    ELSE IF b = 0 THEN a
    ELSE (IF a % 2 = 1 \/ b % 2 = 1 THEN 1 ELSE 0) + 2 * BitOr(a \div 2, b \div 2)

RECURSIVE BitXor(_, _)
BitXor(a, b) ==
    IF a = 0 THEN b
    ELSE IF b = 0 THEN a
    ELSE ((a + b) % 2) + 2 * BitXor(a \div 2, b \div 2)

\* x & ~mask on an 8-bit value
BitClear(x, mask) == x - BitAnd(x, mask)

\* (x >> n) & 1
BitOf(x, n) == (x \div (2 ^ n)) % 2

U8(x) == x % 256
U16(x) == x % 65536

(***************************************************************************)
(* crc.c is not among the sources (only crc.h is): the CRC is modelled     *)
(* from the specification, section 4.4, as a 16-bit CRC (CCITT polynomial  *)
(* 0x1021, initial value 0xFFFF, high byte first) over header and payload, *)
(* appended as a 2-byte trailer on send and recomputed and compared with   *)
(* the trailer on receive.  Return value per crc.h: 1 = OK, 0 = mismatch.  *)
(***************************************************************************)
\* x with bit k inverted
FlipBit(x, k) == IF BitOf(x, k) = 0 THEN x + 2 ^ k ELSE x - 2 ^ k

\* one shift of the 16-bit register: the polynomial 0x1021 (bits 12, 5, 0)
\* is added when the bit shifted out is 1
CrcShift(r) ==
    IF r >= 32768 THEN FlipBit(FlipBit(FlipBit(U16(r * 2), 12), 5), 0) ELSE r * 2

CrcTable ==
    [i \in Byte |->
        CrcShift(CrcShift(CrcShift(CrcShift(
        CrcShift(CrcShift(CrcShift(CrcShift(i * 256))))))))]

Xor4 == [a \in 0..15 |-> [b \in 0..15 |-> BitXor(a, b)]]

Xor8(a, b) == Xor4[a \div 16][b \div 16] * 16 + Xor4[a % 16][b % 16]

CrcUpdate(crc, b) ==
    LET t == CrcTable[Xor8(crc \div 256, b)]
    IN  Xor8(crc % 256, t \div 256) * 256 + (t % 256)

\* CRC of buf[0..n-1]
RECURSIVE CrcOver(_, _, _, _)
CrcOver(buf, i, n, crc) ==
    IF i >= n \/ crc < 0 THEN crc ELSE CrcOver(buf, i + 1, n, CrcUpdate(crc, buf[i]))

CRC16(buf, n) == CrcOver(buf, 0, n, 65535)

\* ucCRC16_compute_msg_CRC on a buffer all of whose ucLength bytes lie inside
\* the array: [ret, buf]
ucCRC16_compute_msg_CRC(ucMsgFlag, buf, ucLength) ==
    LET n == ucLength - CRC_SZ
        crc == CRC16(buf, n)
    IN  IF ucMsgFlag = CRC_FOR_MSG_TO_SEND
        THEN [ret |-> 1,
              buf |-> [buf EXCEPT ![n] = crc \div 256, ![n + 1] = crc % 256]]
        ELSE [ret |-> IF buf[n] = crc \div 256 /\ buf[n + 1] = crc % 256 THEN 1 ELSE 0,
              buf |-> buf]

(***************************************************************************)
(* comm.c: byte level.  The CP drives the clock; a byte is 8 data bits,    *)
(* least significant first, then an even-parity bit, then an ACK bit       *)
(* driven by the receiver.  A sample of the data line is the value of the  *)
(* input register P1IN at that clock edge; SDA is bit SDA_PIN of it.       *)
(***************************************************************************)
\* the 9 levels ucCOMM_SendByte drives: uiTXChar = ucTXChar | (parity << 8),
\* shifted out from bit 0
RECURSIVE Parity8(_, _)
Parity8(ch, n) == IF n = 0 THEN 0 ELSE (BitOf(ch, n - 1) + Parity8(ch, n - 1)) % 2

\* the parity bit inverted
TxBitsOddParity(ucTXChar) ==
    <<BitOf(ucTXChar, 0), BitOf(ucTXChar, 1), BitOf(ucTXChar, 2), BitOf(ucTXChar, 3),
      BitOf(ucTXChar, 4), BitOf(ucTXChar, 5), BitOf(ucTXChar, 6), BitOf(ucTXChar, 7),
      1 - Parity8(ucTXChar, 8)>>

TxBits(ucTXChar) ==
    <<BitOf(ucTXChar, 0), BitOf(ucTXChar, 1), BitOf(ucTXChar, 2), BitOf(ucTXChar, 3),
      BitOf(ucTXChar, 4), BitOf(ucTXChar, 5), BitOf(ucTXChar, 6), BitOf(ucTXChar, 7),
      Parity8(ucTXChar, 8)>>

\* ucCOMM_SendByte(ucTXChar) with p1in the value of P_SDA_IN at the rising
\* clock edge of the ACK bit: [ret, bits (levels driven), flags]
ucCOMM_SendByte(flags, ucTXChar, p1in) ==
    IF BitAnd(flags, COMM_TX_BUSY) # 0
    THEN [ret |-> COMM_ERROR, bits |-> <<>>, flags |-> flags]
    ELSE LET ucAck == BitAnd(p1in, SDA_PIN)
         IN  [ret |-> IF ucAck = 1 THEN COMM_ACK_ERR ELSE COMM_OK,
              bits |-> TxBits(ucTXChar),
              flags |-> BitClear(BitOr(flags, COMM_TX_BUSY), COMM_TX_BUSY)]

\* the data bits of ucCOMM_ReceiveByte: ucRXByte >>= 1, then bit 7 set or
\* cleared from the sample; s is the sequence of 9 sampled P1IN values
RECURSIVE RxShift(_, _, _)
RxShift(s, k, ucRXByte) ==
    IF k > 8 THEN ucRXByte
    ELSE RxShift(s, k + 1,
                 ((ucRXByte \div 2) % 128) + (IF BitAnd(s[k], SDA_PIN) # 0 THEN 128 ELSE 0))

RECURSIVE RxOnes(_, _)
RxOnes(s, k) ==
    IF k = 0 THEN 0 ELSE RxOnes(s, k - 1) + (IF BitAnd(s[k], SDA_PIN) # 0 THEN 1 ELSE 0)

\* a byte with a parity mismatch is not stored
ucCOMM_ReceiveByteDropBad(st, s, junk) ==
    IF BitAnd(st.flags, COMM_RX_BUSY) # 0
    THEN [ret |-> COMM_ERROR, st |-> st, ack |-> 1, byte |-> 0, released |-> FALSE]
    ELSE LET ucRXByte == RxShift(s, 1, junk)
             ucParityBit == RxOnes(s, 8) % 2
             ucRxParityBit == IF BitAnd(s[9], SDA_PIN) # 0 THEN 1 ELSE 0
             f1 == BitClear(BitOr(st.flags, COMM_RX_BUSY), COMM_RX_BUSY)
         IN  IF ucParityBit # ucRxParityBit
             THEN [ret |-> COMM_OK, ack |-> 1, byte |-> ucRXByte, released |-> TRUE,
                   st |-> [st EXCEPT !.flags = BitOr(f1, COMM_PARITY_ERR)]]
             ELSE [ret |-> COMM_OK, ack |-> 0, byte |-> ucRXByte, released |-> TRUE,
                   st |-> [flags |-> f1,
                           buf |-> IF st.idx < MAXMSGLEN
                                   THEN [st.buf EXCEPT ![st.idx] = ucRXByte]
                                   ELSE st.buf,
                           idx |-> U8(st.idx + 1),
                           overrun |-> st.overrun \/ st.idx >= MAXMSGLEN]]

\* ucCOMM_ReceiveByte: st = [flags, buf, idx, overrun]; junk is the value the
\* uninitialised local ucRXByte holds on entry.  A store at an index outside
\* the array is recorded in overrun.
ucCOMM_ReceiveByte(st, s, junk) ==
    IF BitAnd(st.flags, COMM_RX_BUSY) # 0
    THEN [ret |-> COMM_ERROR, st |-> st, ack |-> 1, byte |-> 0, released |-> FALSE]
    ELSE LET ucRXByte == RxShift(s, 1, junk)
             ucParityBit == RxOnes(s, 8) % 2
             ucRxParityBit == IF BitAnd(s[9], SDA_PIN) # 0 THEN 1 ELSE 0
             f1 == BitClear(BitOr(st.flags, COMM_RX_BUSY), COMM_RX_BUSY)
             f2 == IF ucParityBit # ucRxParityBit THEN BitOr(f1, COMM_PARITY_ERR) ELSE f1
         IN  [ret |-> COMM_OK,
              \* level driven on SDA for the ACK bit: 0 = ACK, 1 = NACK
              ack |-> IF ucParityBit = ucRxParityBit THEN 0 ELSE 1,
              byte |-> ucRXByte,
              \* line 360: the data line is an input again
              released |-> TRUE,
              st |-> [flags |-> f2,
                      buf |-> IF st.idx < MAXMSGLEN
                              THEN [st.buf EXCEPT ![st.idx] = ucRXByte] ELSE st.buf,
                      idx |-> U8(st.idx + 1),
                      overrun |-> st.overrun \/ st.idx >= MAXMSGLEN]]

(***************************************************************************)
(* comm.c: vCOMM_SendMessage.  tx holds its locals: the caller's buffer,   *)
(* ucLength (CRC included), ucLoopCount, ucErrorCount, p (the offset of    *)
(* pBuff from the start of the buffer), and whether the loop has ended     *)
(* (done) and whether it ended by the break (aborted).                     *)
(***************************************************************************)
\* lines 455-461: clear the error count, add the CRC bytes, compute the CRC
SendMessageInit(buf, ucLength) ==
    LET len == U8(ucLength + CRC_SZ)
        inside == len >= CRC_SZ /\ len <= MAXMSGLEN
    IN  [buf |-> IF inside
                 THEN ucCRC16_compute_msg_CRC(CRC_FOR_MSG_TO_SEND, buf, len).buf
                 ELSE buf,
         \* the CRC bytes were written outside the caller's array
         spill |-> ~inside,
         ucLength |-> len,
         ucLoopCount |-> 0,
         ucErrorCount |-> 0,
         p |-> 0,
         done |-> len = 0,
         aborted |-> FALSE]

\* the loop body with the break at the fourth error
SendMessageStepBreakAt4(t, res) ==
    IF res = COMM_OK
    THEN [t EXCEPT !.p = t.p + 1,
                   !.ucLoopCount = U8(t.ucLoopCount + 1),
                   !.done = U8(t.ucLoopCount + 1) >= t.ucLength]
    ELSE LET ec == U8(t.ucErrorCount + 1)
             lc == U8(t.ucLoopCount - 1)
         IN  IF ec = 4
             THEN [t EXCEPT !.p = t.p + 1, !.ucErrorCount = ec, !.ucLoopCount = lc,
                            !.done = TRUE, !.aborted = TRUE]
             ELSE [t EXCEPT !.p = t.p + 1, !.ucErrorCount = ec,
                            !.ucLoopCount = U8(lc + 1),
                            !.done = U8(lc + 1) >= t.ucLength]

\* lines 463-478: one pass of the loop body, res the value ucCOMM_SendByte
\* returned for *pBuff++
SendMessageStep(t, res) ==
    IF res = COMM_OK
    THEN [t EXCEPT !.p = t.p + 1,
                   !.ucLoopCount = U8(t.ucLoopCount + 1),
                   !.done = U8(t.ucLoopCount + 1) >= t.ucLength]
    ELSE LET ec == U8(t.ucErrorCount + 1)
             lc == U8(t.ucLoopCount - 1)
         IN  IF ec = 5
             THEN [t EXCEPT !.p = t.p + 1, !.ucErrorCount = ec, !.ucLoopCount = lc,
                            !.done = TRUE, !.aborted = TRUE]
             ELSE [t EXCEPT !.p = t.p + 1, !.ucErrorCount = ec,
                            !.ucLoopCount = U8(lc + 1),
                            !.done = U8(lc + 1) >= t.ucLength]

TxIdle ==
    [buf |-> [i \in 0..(MAXMSGLEN - 1) |-> 0], spill |-> FALSE, ucLength |-> 0,
     ucLoopCount |-> 0, ucErrorCount |-> 0, p |-> 0, done |-> TRUE, aborted |-> FALSE]

(***************************************************************************)
(* comm.c: message receive.  w is the sequence of bytes the CP still       *)
(* clocks out; the CP drives each byte as ucCOMM_SendByte does (bit 0      *)
(* first, then the parity bit).                                            *)
(***************************************************************************)
CpDrive(b) ==
    LET t == TxBits(b)
    IN  <<SDA_PIN * t[1], SDA_PIN * t[2], SDA_PIN * t[3], SDA_PIN * t[4], SDA_PIN * t[5],
          SDA_PIN * t[6], SDA_PIN * t[7], SDA_PIN * t[8], SDA_PIN * t[9]>>

\* one pass of the do-while of ucCOMM_WaitForMessage, lines 412-431, the CP
\* clocking out the byte b.  s = [status, st, size]: status "more" is the loop
\* going on, "ok" and "error" are the values returned, "undefined" follows a
\* store outside the array.
WaitStep(s, b) ==
    LET r == ucCOMM_ReceiveByte(s.st, CpDrive(b), 0)
        hdr == r.st.idx = SP_HEADERSIZE
        size2 == IF hdr THEN U8(r.st.buf[MSG_LEN_IDX] + CRC_SZ) ELSE s.size
    IN  IF r.ret # COMM_OK
        THEN [status |-> "error", st |-> r.st, size |-> s.size]
        ELSE IF r.st.overrun
        THEN [status |-> "undefined", st |-> r.st, size |-> s.size]
        ELSE IF hdr /\ (size2 > MAXMSGLEN \/ size2 < SP_HEADERSIZE)
        THEN [status |-> "error", st |-> r.st, size |-> size2]
        ELSE IF r.st.idx # size2
        THEN [status |-> "more", st |-> r.st, size |-> size2]
        ELSE [status |-> IF r.st.idx = 0 THEN "error" ELSE "ok",
              st |-> r.st, size |-> size2]

\* the passes of the loop over the bytes w, in order, until it ends; the
\* bytes are taken half by half to keep the evaluation shallow
RECURSIVE WaitRun(_, _)
WaitRun(s, w) ==
    IF s.status # "more" \/ w = <<>> THEN s
    ELSE IF Len(w) = 1 THEN WaitStep(s, w[1])
    ELSE LET h == Len(w) \div 2
             first == WaitRun(s, SubSeq(w, 1, h))
         IN  IF first.status # "more" THEN first
             ELSE WaitRun(first, SubSeq(w, h + 1, Len(w)))

\* the loop entered with ucRXMessageSize = size and the CP's bytes w: when
\* the bytes end before the loop does, the routine stays in the wait for the
\* next clock edge (status "starved")
WaitLoop(st, size, w) ==
    LET r == WaitRun([status |-> "more", st |-> st, size |-> size], w)
    IN  [r EXCEPT !.status = IF @ = "more" THEN "starved" ELSE @]

\* ucCOMM_WaitForMessage from its first line
ucCOMM_WaitForMessage(st, w) == WaitLoop(st, SP_HEADERSIZE, w)

\* ucCOMM_GrabMessageFromBuffer(pucBuff): [ret, idx, msg].  When the CRC
\* routine is handed a length that reaches past g_ucaRXBuffer it reads
\* memory outside the array: its verdict is then outside (0 or 1).
ucCOMM_GrabMessageFromBuffer(buf, idx, pucBuff, outside) ==
    IF idx < SP_HEADERSIZE
    THEN [ret |-> COMM_BUFFER_UNDERFLOW, idx |-> idx, msg |-> pucBuff]
    ELSE LET ucLength == buf[MSG_LEN_IDX]
             crcLen == U8(buf[MSG_LEN_IDX] + CRC_SZ)
             crcOk == IF crcLen > MAXMSGLEN THEN outside
                      ELSE ucCRC16_compute_msg_CRC(CRC_FOR_MSG_TO_REC, buf, crcLen).ret
         IN  IF ucLength > MAXMSGLEN
             THEN [ret |-> COMM_BUFFER_UNDERFLOW, idx |-> idx, msg |-> pucBuff]
             ELSE IF crcOk = 0
             THEN [ret |-> COMM_ERROR, idx |-> idx, msg |-> pucBuff]
             ELSE [ret |-> COMM_OK, idx |-> 0,
                   msg |-> [i \in 0..(MAXMSGLEN - 1) |->
                              IF i < ucLength THEN buf[i] ELSE pucBuff[i]]]

(***************************************************************************)
(* The CP's frames.  A message is the sequence of its header and payload   *)
(* bytes; on the wire it is followed by the CRC, as vCOMM_SendMessage      *)
(* transmits it.                                                           *)
(***************************************************************************)
BufOf(m) == [i \in 0..(MAXMSGLEN - 1) |-> IF i < Len(m) THEN m[i + 1] ELSE 0]

\* the bytes vCOMM_SendMessage passes to ucCOMM_SendByte for a message that
\* fits the buffer with its CRC, every call returning COMM_OK
SentBytes(buf, L) ==
    LET t == SendMessageInit(buf, L)
    IN  [k \in 1..t.ucLength |-> t.buf[k - 1]]

FrameBytes(m) ==
    IF Len(m) + CRC_SZ <= MAXMSGLEN
    THEN SentBytes(BufOf(m), Len(m))
    ELSE LET crc == CRC16(BufOf(m), Len(m))
         IN  m \o <<crc \div 256, crc % 256>>

Pattern(n) == [i \in 1..n |-> (i * 37 + 11) % 251]

Msg(type, payload) ==
    <<type, SP_HEADERSIZE + Len(payload), SP_DATAMESSAGE_VERSION, 0>> \o payload

(***************************************************************************)
(* main.c: the report structure S_Report and the transducer handlers.      *)
(* A measurement is what cSTM_Measure leaves for the handler: its result   *)
(* (0 = reading, 1 = checksum failure, 2 = timeout) and the two readings.  *)
(***************************************************************************)
F_NEWDATA == 1
NUMDATGEN == 9
NUM_TRANSDUCERS == 4
TYPE_IS_SENSOR == 83
STM_ERROR_CODE_1 == 1
STM_ERROR_CODE_2 == 2
RX_BUFFER_SIZE_STM == 20
MPS6 == 108
FIVETM == 120
FIVETE == 122

\* vMain_CleanDataStruct
CleanReport ==
    [g \in 0..(NUMDATGEN - 1) |->
        [m_ucaData |-> <<0, 0, 0, 0>>, m_ucLength |-> 0, m_ucFlags |-> 0]]

uiMain_Test(S) ==
    [S EXCEPT ![0] = [m_ucaData |-> <<190, 239, @.m_ucaData[3], @.m_ucaData[4]>>,
                      m_ucLength |-> 2, m_ucFlags |-> F_NEWDATA]]

\* a leading byte is dropped while it is zero
SoilLengthUnsigned(lSoil) ==
    IF lSoil < 0 \/ lSoil >= 16777216 THEN 4
    ELSE IF lSoil >= 65536 THEN 3
    ELSE IF lSoil >= 256 THEN 2
    ELSE 1

\* the number of bytes of the int32 lSoil the handlers keep: the masks
\* 0xFF800000, 0x00FF8000 and 0x0000FF80 (main.c:184-193); a negative value
\* has the bits of the first mask set
SoilLength(lSoil) ==
    IF lSoil < 0 \/ lSoil >= 8388608 THEN 4
    ELSE IF lSoil >= 32768 THEN 3
    ELSE IF lSoil >= 128 THEN 2
    ELSE 1

RECURSIVE Pow256(_)
Pow256(n) == IF n = 0 THEN 1 ELSE 256 * Pow256(n - 1)

\* uiMain_STM1 .. uiMain_STM4: k is the channel, meas the measurement
uiMain_STM(k, S, meas) ==
    LET a == 2 * k - 1
        b == 2 * k
        len == SoilLength(meas.lSoil)
        \* byte j of lSoil << (8 * (4 - len)) is byte j + 4 - len of lSoil
        \* (byte 1 the highest), zero behind the lowest
        sh == [j \in 1..4 |->
                 IF j + 4 - len <= 4
                 THEN (meas.lSoil \div Pow256(len - j)) % 256
                 ELSE 0]
        Sa == IF meas.cResult = 0
              THEN [m_ucaData |-> <<sh[1], sh[2], sh[3], sh[4]>>,
                    m_ucLength |-> len, m_ucFlags |-> F_NEWDATA]
              ELSE IF meas.cResult = 1
              THEN [S[a] EXCEPT !.m_ucaData[1] = STM_ERROR_CODE_1,
                                !.m_ucLength = 1, !.m_ucFlags = F_NEWDATA]
              ELSE IF meas.cResult = 2
              THEN [S[a] EXCEPT !.m_ucaData[1] = STM_ERROR_CODE_2,
                                !.m_ucLength = 1, !.m_ucFlags = F_NEWDATA]
              ELSE [S[a] EXCEPT !.m_ucFlags = F_NEWDATA]
        Sb == IF meas.cResult = 0
              THEN [S[b] EXCEPT !.m_ucaData[1] = (meas.iTemperature \div 256) % 256,
                                !.m_ucaData[2] = meas.iTemperature % 256,
                                !.m_ucLength = 2, !.m_ucFlags = F_NEWDATA]
              ELSE IF meas.cResult = 1
              THEN [S[b] EXCEPT !.m_ucaData[1] = STM_ERROR_CODE_1,
                                !.m_ucLength = 1, !.m_ucFlags = F_NEWDATA]
              ELSE IF meas.cResult = 2
              THEN [S[b] EXCEPT !.m_ucaData[1] = STM_ERROR_CODE_2,
                                !.m_ucLength = 1, !.m_ucFlags = F_NEWDATA]
              ELSE [S[b] EXCEPT !.m_ucFlags = F_NEWDATA]
    IN  [S EXCEPT ![a] = Sa, ![b] = Sb]

\* the dispatch hands on the result of the measurement
uiMainDispatchResult(ucCmdTransNum, S, rig) ==
    IF ucCmdTransNum = 0 THEN [ret |-> 0, S |-> uiMain_Test(S)]
    ELSE IF ucCmdTransNum \in 1..NUM_TRANSDUCERS
    THEN [ret |-> rig[ucCmdTransNum].cResult,
          S |-> uiMain_STM(ucCmdTransNum, S, rig[ucCmdTransNum])]
    ELSE [ret |-> 1, S |-> S]

\* uiMainDispatch: [ret, S]; rig gives the measurement of each channel
uiMainDispatch(ucCmdTransNum, S, rig) ==
    IF ucCmdTransNum = 0 THEN [ret |-> 0, S |-> uiMain_Test(S)]
    ELSE IF ucCmdTransNum \in 1..NUM_TRANSDUCERS
    THEN [ret |-> 0, S |-> uiMain_STM(ucCmdTransNum, S, rig[ucCmdTransNum])]
    ELSE [ret |-> 1, S |-> S]

\* ucMain_FetchData: the bytes written to the passed buffer, slot g onwards
RECURSIVE FetchFrom(_, _)
FetchFrom(S, g) ==
    IF g >= NUMDATGEN THEN <<>>
    ELSE (IF BitAnd(S[g].m_ucFlags, F_NEWDATA) # 0
          THEN <<g, S[g].m_ucLength>> \o SubSeq(S[g].m_ucaData, 1, S[g].m_ucLength)
          ELSE <<>>) \o FetchFrom(S, g + 1)

\* the fetch leaves out slot 0
FetchDataFromOne(S) == FetchFrom(S, 1)

ucMain_FetchData(S) == FetchFrom(S, 0)

\* the labels of main.c:23-27 and of the default case, as character codes
Spaces(n) == [i \in 1..n |-> 32]

vMain_FetchLabel(ucTransNum) ==
    IF ucTransNum = 0
    THEN <<84, 101, 115, 116, 32, 70, 117, 110, 99, 116, 105, 111, 110>> \o Spaces(3)
    ELSE IF ucTransNum \in 1..4
    THEN <<83, 84, 77, 48 + ucTransNum>> \o Spaces(12)
    ELSE <<67, 65, 78, 78, 79, 84, 32, 67, 79, 77, 80, 85, 84, 69, 33, 33>>

ucMain_getTransducerType(ucTransNum) ==
    IF ucTransNum \in 1..4 THEN TYPE_IS_SENSOR ELSE 0

ucMain_getSampleDuration(ucTransNum) == 1

ucMain_ShutdownAllowed == 1

(***************************************************************************)
(* core.c: the messages vCORE_Run builds and sends.                        *)
(***************************************************************************)
BSLPWDLEN == 32
TRANSDUCER_LABEL_LEN == 16

\* the board name bytes ID_PKT_HI_BYTE1 .. ID_PKT_LO_BYTE4
BoardName == <<83, 84, 77, 0, 0, 0, 0, 0>>

\* the BSL password area of flash, erased
BslPassword == [i \in 1..BSLPWDLEN |-> 255]

\* store the bytes of seq in buf from index at on
PutSeq(buf, at, seq) ==
    [i \in 0..(MAXMSGLEN - 1) |->
        IF i >= at /\ i < at + Len(seq) THEN seq[i - at + 1] ELSE buf[i]]

\* the flags byte after "if (ucMain_ShutdownAllowed() == 1) |= SHUTDOWN_BIT
\* else = 0"
\* the flags byte is cleared whatever ucMain_ShutdownAllowed returns
ShutdownFlagsNone(buf) == 0

ShutdownFlags(buf) ==
    IF ucMain_ShutdownAllowed = 1 THEN BitOr(buf[MSG_FLAGS_IDX], SHUTDOWN_BIT) ELSE 0

\* the loop of vCOMM_SendMessage run to its end, the CP answering every byte
\* with the level p1in on P1IN at the ACK bit: [buf, sent, aborted, spill]
RECURSIVE SendLoop(_, _, _, _)
SendLoop(t, flags, p1in, sent) ==
    IF t.done
    THEN [buf |-> t.buf, sent |-> sent, aborted |-> t.aborted, spill |-> t.spill]
    ELSE LET b == IF t.p < MAXMSGLEN THEN t.buf[t.p] ELSE 0
             r == ucCOMM_SendByte(flags, b, p1in)
         IN  SendLoop(SendMessageStep(t, r.ret), r.flags, p1in, Append(sent, b))

\* the CRC bytes are not counted in the number of bytes to send
vCOMM_SendMessageNoCrc(buf, ucLength, flags, p1in) ==
    SendLoop(SendMessageInit(buf, ucLength - CRC_SZ), flags, p1in, <<>>)

vCOMM_SendMessage(buf, ucLength, flags, p1in) ==
    SendLoop(SendMessageInit(buf, ucLength), flags, p1in, <<>>)

\* the local buffer of vCORE_Send_ConfirmPKT before the send
ConfirmPKT ==
    PutSeq([i \in 0..(MAXMSGLEN - 1) |-> 0], 0,
           <<CONFIRM_COMMAND, SP_HEADERSIZE, SP_DATAMESSAGE_VERSION, 0>>)

\* the error message with the payload byte left out
ErrorMsgNoCode(ucErrMsg) ==
    PutSeq([i \in 0..(MAXMSGLEN - 1) |-> 0], 0,
           <<REPORT_ERROR, 5, SP_DATAMESSAGE_VERSION, 0, 0>>)

\* the local buffer of vCORE_Send_ErrorMsg before the send
ErrorMsg(ucErrMsg) ==
    PutSeq([i \in 0..(MAXMSGLEN - 1) |-> 0], 0,
           <<REPORT_ERROR, 5, SP_DATAMESSAGE_VERSION, 0, ucErrMsg>>)

\* what cSTM_Measure gave the handler of transducer id, if it has one
MeasOf(id, rig) ==
    IF id \in 1..NUM_TRANSDUCERS THEN rig[id]
    ELSE [cResult |-> 0, lSoil |-> 0, iTemperature |-> 0]

\* the aggregate keeps the last value returned only
AggregateLast(unReturn, ret) == ret

\* unTransducerReturn |= uiMainDispatch(...)
Aggregate(unReturn, ret) == BitOr(unReturn, ret)

\* the for loop of case COMMAND_PKT from ucMsgBuffIdx = idx on:
\* [S, ret, calls, fault].  fault: the loop read ucaMsg_Buff or wrote ucParam
\* outside the array.
RECURSIVE CommandLoop(_, _, _, _, _, _)
CommandLoop(buf, idx, S, unReturn, calls, rig) ==
    IF idx >= buf[MSG_LEN_IDX]
    THEN [S |-> S, ret |-> unReturn, calls |-> calls, fault |-> FALSE]
    ELSE IF idx + 1 >= MAXMSGLEN
    THEN [S |-> S, ret |-> unReturn, calls |-> calls, fault |-> TRUE]
    ELSE LET ucCmdTransNum == buf[idx]
             ucCmdParamLen == buf[idx + 1]
         IN  IF ucCmdParamLen > 20 \/ idx + 2 + ucCmdParamLen > MAXMSGLEN
             THEN [S |-> S, ret |-> unReturn, calls |-> calls, fault |-> TRUE]
             ELSE LET ucParam == [i \in 1..ucCmdParamLen |-> buf[idx + 1 + i]]
                      d == uiMainDispatch(ucCmdTransNum, S, rig)
                  IN  CommandLoop(buf, idx + 2 + ucCmdParamLen, d.S,
                                  Aggregate(unReturn, d.ret),
                                  Append(calls, [op |-> "dispatch",
                                                 id |-> ucCmdTransNum,
                                                 len |-> ucCmdParamLen,
                                                 params |-> ucParam,
                                                 meas |-> MeasOf(ucCmdTransNum, rig),
                                                 ret |-> d.ret]),
                                  rig)

\* case INTERROGATE: the payload
InterrogatePayload ==
    <<NUM_TRANSDUCERS>>
    \o <<ucMain_getTransducerType(1), ucMain_getSampleDuration(1),
         ucMain_getTransducerType(2), ucMain_getSampleDuration(2),
         ucMain_getTransducerType(3), ucMain_getSampleDuration(3),
         ucMain_getTransducerType(4), ucMain_getSampleDuration(4)>>
    \o BoardName

(***************************************************************************)
(* State                                                                   *)
(***************************************************************************)
VARIABLES
    pc,                  \* where the main loop (or the unit under check) stands
    g_ucCOMM_Flags,      \* comm.c:37
    g_ucaRXBuffer,       \* comm.c:62
    g_ucRXBufferIndex,   \* comm.c:66
    rxOverrun,           \* a byte was stored outside g_ucaRXBuffer
    ucRXMessageSize,     \* local of the running ucCOMM_WaitForMessage
    ucaMsg_Buff,         \* vCORE_Run's message buffer
    unTransducerReturn,  \* vCORE_Run's aggregate command result
    ucCommState,         \* vCORE_Run: result of ucCOMM_GrabMessageFromBuffer
    S_Report,            \* main.c:78-82
    uiHID,               \* core.c:38
    infoD,               \* the identity words of flash segment D (flash.h:42-46)
    uiSTM_type,          \* STM.c:69-81, uiSTM1_type .. uiSTM4_type
    wire,                \* bytes the CP is clocking out, not yet sampled
    frame,               \* the frame the CP sent last
    nExchanges,          \* start conditions so far
    history,             \* the exchanges before the current one: [frame, events]
    events,              \* what vCORE_Run did for the current frame, in order
    tx,                  \* locals of the running vCOMM_SendMessage
    txCalls,             \* its calls of ucCOMM_SendByte: [pos, res]
    byteIo,              \* the last byte-level call and its result
    g_ucaSTM_RXBuffer,   \* STM.c:35
    g_ucSTM_RXBufferIndex, \* STM.c:39
    g_ucSTM_RXBitsLeft,  \* STM.c:43
    g_ucSTM_RXBusy,      \* STM.c:51
    timeoutcounter,      \* STM.c:85
    lSTM_Soil,           \* STM.c:64
    nSTM_Temperature,    \* STM.c:60
    stmRxIE,             \* P_STM_RX_IE & cSTM_RX_Pin: the edge interrupt is enabled
    TBCCTL1_CCIE,        \* the bit-timer compare interrupt is enabled
    TBCTL_MC,            \* timer B is running (TBCTL mode bits not 0)
    P_STM_RX_IFG,        \* P_STM_RX_IFG & cSTM_RX_Pin: an edge is flagged
    P_STM_PWR_OUT,       \* the channels whose excitation pin is high
    sensor,              \* the sensor: bytes still to send, byte on the line
    call                 \* the running or last cSTM_ call: what it was given and did

commVars == <<g_ucCOMM_Flags, g_ucaRXBuffer, g_ucRXBufferIndex, rxOverrun, ucRXMessageSize>>
coreVars == <<ucaMsg_Buff, unTransducerReturn, ucCommState, S_Report, uiHID, infoD,
              uiSTM_type>>
cpVars == <<wire, frame, nExchanges, history, events>>
sendVars == <<tx, txCalls>>
stmVars == <<g_ucaSTM_RXBuffer, g_ucSTM_RXBufferIndex, g_ucSTM_RXBitsLeft, g_ucSTM_RXBusy,
             timeoutcounter, lSTM_Soil, nSTM_Temperature, stmRxIE, TBCCTL1_CCIE,
             TBCTL_MC, P_STM_RX_IFG, P_STM_PWR_OUT, sensor, call>>
vars == <<pc, commVars, coreVars, cpVars, sendVars, byteIo, stmVars>>

\* vCOMM_Init, comm.c:93-121
InitComm ==
    /\ g_ucCOMM_Flags = COMM_RUNNING
    /\ g_ucaRXBuffer = [i \in 0..(MAXMSGLEN - 1) |-> 255]
    /\ g_ucRXBufferIndex = 0
    /\ rxOverrun = FALSE
    /\ ucRXMessageSize = SP_HEADERSIZE

\* the identity vFlash_GetHID reads at start-up
FlashHID == <<4660, 22136, 39612, 57072>>

InitCore ==
    /\ ucaMsg_Buff = [i \in 0..(MAXMSGLEN - 1) |-> 0]
    /\ unTransducerReturn = 0
    /\ ucCommState = COMM_OK
    /\ S_Report = CleanReport
    /\ uiHID = FlashHID
    /\ infoD = FlashHID
    /\ uiSTM_type = [c \in 1..NUM_TRANSDUCERS |-> 82]

NoFrame == [kind |-> "none", msg |-> <<>>, bytes |-> <<>>, cmds |-> <<>>]

InitCp ==
    /\ wire = <<>>
    /\ frame = NoFrame
    /\ nExchanges = 0
    /\ history = <<>>
    /\ events = <<>>

InitSend ==
    /\ tx = TxIdle
    /\ txCalls = <<>>

NoByteIo == [fn |-> "none"]

NoCall == [fn |-> "none"]

\* the globals of STM.c after vSTM_Initialize (STM.c:102-116); the other
\* globals have their C initial value 0
InitStm ==
    /\ g_ucaSTM_RXBuffer = [i \in 0..(RX_BUFFER_SIZE_STM - 1) |-> 255]
    /\ g_ucSTM_RXBufferIndex = 0
    /\ g_ucSTM_RXBitsLeft = 0
    /\ g_ucSTM_RXBusy = 0
    /\ timeoutcounter = 0
    /\ lSTM_Soil = 0
    /\ nSTM_Temperature = 0
    /\ stmRxIE = FALSE
    /\ TBCCTL1_CCIE = FALSE
    /\ TBCTL_MC = FALSE
    /\ P_STM_RX_IFG = FALSE
    /\ P_STM_PWR_OUT = {}
    /\ sensor = [line |-> <<>>, cur |-> 0]
    /\ call = NoCall

(***************************************************************************)
(* SpecByte: the byte routines of comm.c called once from the state        *)
(* vCOMM_Init leaves, for every byte value and every level of the lines.   *)
(***************************************************************************)
\* values P1IN can show: SDA (bit 1) low or high, a neighbouring pin (bit 0)
\* low or high
P1Levels == {0, 1, SDA_PIN, SDA_PIN + 1}

InitByte ==
    /\ pc = "byte_idle"
    /\ InitComm /\ InitCore /\ InitCp /\ InitSend /\ InitStm
    /\ byteIo = NoByteIo

CallSendByte ==
    /\ pc = "byte_idle"
    /\ \E ch \in Byte, p1in \in P1Levels :
         LET r == ucCOMM_SendByte(g_ucCOMM_Flags, ch, p1in)
         IN  /\ byteIo' = [fn |-> "send", ch |-> ch, p1in |-> p1in,
                           ret |-> r.ret, bits |-> r.bits]
             /\ g_ucCOMM_Flags' = r.flags
    /\ pc' = "byte_done"
    /\ UNCHANGED <<stmVars, g_ucaRXBuffer, g_ucRXBufferIndex, rxOverrun, ucRXMessageSize, coreVars, cpVars, sendVars>>

\* the peer drives the 9 bits of a byte ch, parity bit par; junk is the
\* content of the uninitialised ucRXByte
CallReceiveByte ==
    /\ pc = "byte_idle"
    /\ \E ch \in Byte, par \in {0, 1}, junk \in {0, 255} :
         LET s == [k \in 1..9 |-> SDA_PIN * (IF k = 9 THEN par ELSE BitOf(ch, k - 1))]
             r == ucCOMM_ReceiveByte([flags |-> g_ucCOMM_Flags, buf |-> g_ucaRXBuffer,
                                      idx |-> g_ucRXBufferIndex, overrun |-> rxOverrun],
                                     s, junk)
         IN  /\ byteIo' = [fn |-> "receive", ch |-> ch, par |-> par,
                           ret |-> r.ret, ack |-> r.ack]
             /\ g_ucCOMM_Flags' = r.st.flags
             /\ g_ucaRXBuffer' = r.st.buf
             /\ g_ucRXBufferIndex' = r.st.idx
             /\ rxOverrun' = r.st.overrun
    /\ pc' = "byte_done"
    /\ UNCHANGED <<stmVars, ucRXMessageSize, coreVars, cpVars, sendVars>>

NextByte == CallSendByte \/ CallReceiveByte

SpecByte == InitByte /\ [][NextByte]_vars

(***************************************************************************)
(* SpecSend: vCOMM_SendMessage as a unit.  The value ucCOMM_SendByte       *)
(* returns for each byte is an input of the loop (COMM_OK or COMM_ACK_ERR).*)
(***************************************************************************)
MaxSendLen == 6

\* a message of length L in the caller's 64-byte buffer; the bytes after it
\* are what an earlier, longer message left there
TestMsg(L) ==
    [i \in 0..(MAXMSGLEN - 1) |->
        IF i = MSG_TYP_IDX THEN REPORT_DATA
        ELSE IF i = MSG_LEN_IDX THEN L
        ELSE IF i = MSG_VER_IDX THEN SP_DATAMESSAGE_VERSION
        ELSE IF i = MSG_FLAGS_IDX THEN 0
        ELSE IF i < L THEN 16 + i
        ELSE 170]

InitSendUnit ==
    /\ pc = "send_idle"
    /\ InitComm /\ InitCore /\ InitCp /\ InitSend /\ InitStm
    /\ byteIo = NoByteIo

SendStart ==
    /\ pc = "send_idle"
    /\ \E L \in SP_HEADERSIZE..MaxSendLen :
         tx' = SendMessageInit(TestMsg(L), L)
    /\ txCalls' = <<>>
    /\ pc' = "send_loop"
    /\ UNCHANGED <<stmVars, commVars, coreVars, cpVars, byteIo>>

SendByteStub ==
    /\ pc = "send_loop"
    /\ ~tx.done
    /\ \E res \in {COMM_OK, COMM_ACK_ERR} :
         /\ tx' = SendMessageStep(tx, res)
         /\ txCalls' = Append(txCalls, [pos |-> tx.p, res |-> res])
    /\ pc' = IF tx'.done THEN "send_done" ELSE "send_loop"
    /\ UNCHANGED <<stmVars, commVars, coreVars, cpVars, byteIo>>

NextSend == SendStart \/ SendByteStub

SpecSend == InitSendUnit /\ [][NextSend]_vars

\* the calls so far, as results and as positions
Failed(k) == txCalls[k].res # COMM_OK
NFailed == Cardinality({k \in 1..Len(txCalls) : Failed(k)})
FailRun(k, n) == k >= 1 /\ k + n - 1 <= Len(txCalls) /\ \A j \in k..(k + n - 1) : Failed(j)
AcceptedPos == SelectSeq(txCalls, LAMBDA c : c.res = COMM_OK)
PassedPos == {txCalls[k].pos : k \in 1..Len(txCalls)}
\* positions of header, payload and CRC of the message being sent
MsgPositions == 0..(tx.ucLength - 1)

(***************************************************************************)
(* C6: in vCOMM_SendMessage, after ucCOMM_SendByte returned non-OK for the *)
(* byte at position i the next call passes position i again; so when the   *)
(* message completes the peer has accepted exactly positions 0..L+1, in    *)
(* order, each once, and no position beyond L+1 was read.                  *)
(* (The statement of the claim; the code advances pBuff on every call.)    *)
(***************************************************************************)
C6_RetrySameByte ==
    pc \in {"send_loop", "send_done"} =>
        /\ \A k \in 1..(Len(txCalls) - 1) :
             Failed(k) => txCalls[k + 1].pos = txCalls[k].pos
        /\ \A k \in 1..Len(txCalls) : txCalls[k].pos \in MsgPositions
        /\ (pc = "send_done" /\ ~tx.aborted) =>
             /\ Len(AcceptedPos) = tx.ucLength
             /\ \A k \in 1..Len(AcceptedPos) : AcceptedPos[k].pos = k - 1

C8_LimitPerByte ==
    (pc = "send_done" /\ tx.aborted) => \E k \in 1..Len(txCalls) : FailRun(k, 5)

(***************************************************************************)
(* C9: ucCOMM_SendByte, when not busy, returns COMM_ACK_ERR exactly when   *)
(* the data line is sampled high on the ACK clock edge and COMM_OK exactly *)
(* when it is sampled low.                                                 *)
(* (The statement of the claim; the code compares the masked sample, 0 or  *)
(* SDA_PIN = 2, with 1.)                                                   *)
(***************************************************************************)
C9_AckErrOnNack ==
    (pc = "byte_done" /\ byteIo.fn = "send") =>
        /\ (BitOf(byteIo.p1in, 1) = 1 <=> byteIo.ret = COMM_ACK_ERR)
        /\ (BitOf(byteIo.p1in, 1) = 0 <=> byteIo.ret = COMM_OK)

(***************************************************************************)
(* The frames of the CP.  A frame is a record: kind, the message (header   *)
(* and payload), the bytes on the wire, and for a command the triples of   *)
(* its payload.                                                            *)
(***************************************************************************)
RECURSIVE EncodeCmds(_)
EncodeCmds(cmds) ==
    IF cmds = <<>> THEN <<>>
    ELSE <<Head(cmds).id, Len(Head(cmds).p)>> \o Head(cmds).p \o EncodeCmds(Tail(cmds))

WellFormed(m, cmds) ==
    [kind |-> "wellformed", msg |-> m, bytes |-> FrameBytes(m), cmds |-> cmds]

\* the frame of m with the byte at position pos (from 1) raised by delta
Corrupt(m, pos, delta) ==
    [kind |-> "corrupt", msg |-> m,
     bytes |-> [FrameBytes(m) EXCEPT ![pos] = (@ + delta) % 256],
     cmds |-> <<>>]

\* a header declaring L and n bytes after it, no matching CRC
BadLength(type, L, n) ==
    [kind |-> "badlength", msg |-> <<type, L, SP_DATAMESSAGE_VERSION, 0>>,
     bytes |-> <<type, L, SP_DATAMESSAGE_VERSION, 0>> \o Pattern(n),
     cmds |-> <<>>]

\* L < 4: the first L bytes of a header followed by their CRC
Short(type, L) ==
    LET m == SubSeq(<<type, L, SP_DATAMESSAGE_VERSION>>, 1, L)
    IN  [kind |-> "short", msg |-> m, bytes |-> FrameBytes(m), cmds |-> <<>>]

FrameL(f) == f.msg[MSG_LEN_IDX + 1]

FrameType(f) == f.msg[MSG_TYP_IDX + 1]

CmdLists ==
    { <<[id |-> 0, p |-> <<>>]>>,
      <<[id |-> 2, p |-> <<7>>], [id |-> 0, p |-> <<>>]>>,
      <<[id |-> 9, p |-> <<1, 2>>], [id |-> 3, p |-> <<>>]>>,
      <<[id |-> 1, p |-> <<>>], [id |-> 4, p |-> <<5>>]>>,
      <<[id |-> 0, p |-> <<>>], [id |-> 1, p |-> <<>>], [id |-> 2, p |-> <<>>],
        [id |-> 3, p |-> <<>>], [id |-> 4, p |-> <<>>]>> }

\* a command payload whose parameter-length byte is larger than ucParam
\* (core.c:221) and than what is left of the payload
LongParamPayload == <<1, 21>>

Requests ==
    { Msg(REQUEST_DATA, <<>>), Msg(REQUEST_LABEL, <<1>>),
      Msg(REQUEST_BSL_PW, <<>>), Msg(INTERROGATE, <<>>),
      Msg(SET_SERIALNUM, <<1, 2, 3, 4, 5, 6, 7, 8>>),
      Msg(COMMAND_SENSOR_TYPE, <<>>), Msg(REQUEST_SENSOR_TYPE, <<>>),
      Msg(PROGRAM_CODE, <<>>),
      <<ID_PKT, SP_HEADERSIZE, SP_DATAMESSAGE_VERSION, 130>> }

\* the frames of Spec: every message type, commands, and frames to reject
Frames ==
    {WellFormed(Msg(COMMAND_PKT, EncodeCmds(c)), c) : c \in CmdLists}
    \cup {WellFormed(Msg(COMMAND_PKT, LongParamPayload), <<>>)}
    \cup {WellFormed(m, <<>>) : m \in Requests}
    \cup { Corrupt(Msg(REQUEST_LABEL, <<1>>), 5, 1),
           BadLength(REQUEST_DATA, 200, 2),
           Short(COMMAND_PKT, 3) }

\* what the sensor of each channel answers to a measurement
Reading(c) ==
    [cResult |-> 0, lSoil |-> <<100, 30000, 70000, 9000000>>[c], iTemperature |-> 231 + c]

SensorRigs ==
    { [c \in 1..NUM_TRANSDUCERS |-> Reading(c)],
      [c \in 1..NUM_TRANSDUCERS |-> [cResult |-> 2, lSoil |-> 0, iTemperature |-> 0]],
      [c \in 1..NUM_TRANSDUCERS |->
          IF c = 2 THEN [cResult |-> 1, lSoil |-> 0, iTemperature |-> 0] ELSE Reading(c)],
      [c \in 1..NUM_TRANSDUCERS |-> [cResult |-> 1, lSoil |-> 0, iTemperature |-> 0]],
      [c \in 1..NUM_TRANSDUCERS |->
          [cResult |-> 0, lSoil |-> 9000000 + c, iTemperature |-> 231 + c]] }

\* what cSTM_RequestSensorType stores for each channel: a type byte, or
\* nothing (the result was 1 or 2)
TypeRigs ==
    { [c \in 1..NUM_TRANSDUCERS |-> [stored |-> FALSE, type |-> 0]],
      [c \in 1..NUM_TRANSDUCERS |-> [stored |-> TRUE, type |-> 120]],
      [c \in 1..NUM_TRANSDUCERS |-> [stored |-> c = 1, type |-> 122]] }

\* values an uninitialised uint16 local of vCORE_Run may hold
StackJunk == {0, 43981}

(***************************************************************************)
(* Spec: the exchange branch of the main loop of vCORE_Run (core.c         *)
(* 268-519), entered where ucCOMM_WaitForStartCondition has returned 1.    *)
(* The CP sends a frame at each start condition and clocks the response;   *)
(* bytes of a frame the SP does not sample are lost.  A CP whose frame got *)
(* no answer sends the frame again.                                        *)
(***************************************************************************)
MaxExchanges == 2

\* the buffer vCORE_Run has sent as its announcement, lines 223-256
AnnounceBuf ==
    vCOMM_SendMessage(
        PutSeq([i \in 0..(MAXMSGLEN - 1) |-> 0], 0,
               <<ID_PKT, 12, SP_DATAMESSAGE_VERSION, 0,
                 FlashHID[1] % 256, FlashHID[1] \div 256,
                 FlashHID[2] % 256, FlashHID[2] \div 256,
                 FlashHID[3] % 256, FlashHID[3] \div 256,
                 FlashHID[4] % 256, FlashHID[4] \div 256>>),
        12, COMM_RUNNING, 0).buf

Init ==
    /\ pc = "wait_start"
    /\ InitComm /\ InitCp /\ InitSend /\ InitStm
    /\ ucaMsg_Buff = AnnounceBuf
    /\ unTransducerReturn \in StackJunk
    /\ ucCommState = COMM_OK
    /\ S_Report = CleanReport
    /\ uiHID = FlashHID
    /\ infoD = FlashHID
    /\ uiSTM_type = [c \in 1..NUM_TRANSDUCERS |-> 82]
    /\ byteIo = NoByteIo

\* the CP raises a start condition and begins the frame f
StartFrame(f) ==
    /\ frame' = f
    /\ wire' = f.bytes
    /\ nExchanges' = nExchanges + 1
    /\ history' = IF nExchanges = 0 THEN history
                  ELSE Append(history, [frame |-> frame, events |-> events])
    /\ events' = <<>>
    /\ pc' = "wait_msg"
    /\ UNCHANGED <<stmVars, commVars, coreVars, sendVars, byteIo>>

CpStartCondition ==
    /\ pc = "wait_start"
    /\ nExchanges < MaxExchanges
    /\ \E f \in Frames : StartFrame(f)

\* the SP still waits for a clock edge: the CP sends its frame again
CpRetry ==
    /\ pc = "rx_starved"
    /\ wire' = frame.bytes
    /\ pc' = "rx_resume"
    /\ UNCHANGED <<stmVars, commVars, coreVars, frame, nExchanges, history, events, sendVars, byteIo>>

\* ucCOMM_WaitForMessage, from its first line or from the wait for the next
\* clock edge; line 271, the value returned is not used
CallWaitForMessage ==
    /\ pc \in {"wait_msg", "rx_resume"}
    /\ LET r == WaitLoop([flags |-> g_ucCOMM_Flags, buf |-> g_ucaRXBuffer,
                          idx |-> g_ucRXBufferIndex, overrun |-> rxOverrun],
                         IF pc = "wait_msg" THEN SP_HEADERSIZE ELSE ucRXMessageSize,
                         wire)
       IN  /\ g_ucCOMM_Flags' = r.st.flags
           /\ g_ucaRXBuffer' = r.st.buf
           /\ g_ucRXBufferIndex' = r.st.idx
           /\ rxOverrun' = r.st.overrun
           /\ ucRXMessageSize' = r.size
           /\ pc' = IF r.status = "starved" THEN "rx_starved"
                    ELSE IF r.status = "undefined" THEN "undefined"
                    ELSE "grab"
    /\ wire' = <<>>
    /\ UNCHANGED <<stmVars, coreVars, frame, nExchanges, history, events, sendVars, byteIo>>

\* lines 274-276: ucCommState = ucCOMM_GrabMessageFromBuffer(ucaMsg_Buff)
CallGrabMessage ==
    /\ pc = "grab"
    /\ \E outside \in {0, 1} :
         LET r == ucCOMM_GrabMessageFromBuffer(g_ucaRXBuffer, g_ucRXBufferIndex,
                                               ucaMsg_Buff, outside)
         IN  /\ ucCommState' = r.ret
             /\ g_ucRXBufferIndex' = r.idx
             /\ ucaMsg_Buff' = r.msg
             /\ events' = Append(events, [op |-> "grab", ret |-> r.ret])
             /\ pc' = IF r.ret = COMM_OK THEN "switch" ELSE "error"
    /\ UNCHANGED <<stmVars, g_ucCOMM_Flags, g_ucaRXBuffer, rxOverrun, ucRXMessageSize,
                   unTransducerReturn, S_Report, uiHID, infoD, uiSTM_type,
                   wire, frame, nExchanges, history, sendVars, byteIo>>

\* vCOMM_SendMessage(buf, buf[MSG_LEN_IDX]) as the last statement of a case
\* of the switch, buf being ucaMsg_Buff
SendResponse(buf) ==
    \E p1in \in {0, SDA_PIN} :
        LET r == vCOMM_SendMessage(buf, buf[MSG_LEN_IDX], g_ucCOMM_Flags, p1in)
        IN  /\ ucaMsg_Buff' = r.buf
            /\ events' = Append(events, [op |-> "send", bytes |-> r.sent,
                                         aborted |-> r.aborted])
            /\ pc' = IF r.spill THEN "undefined" ELSE "wait_start"

\* line 517: vCORE_Send_ErrorMsg(ucCommState)
SendErrorMsg ==
    /\ pc = "error"
    /\ \E p1in \in {0, SDA_PIN} :
         LET b == ErrorMsg(ucCommState)
             r == vCOMM_SendMessage(b, b[MSG_LEN_IDX], g_ucCOMM_Flags, p1in)
         IN  events' = Append(events, [op |-> "send", bytes |-> r.sent,
                                       aborted |-> r.aborted])
    /\ pc' = "wait_start"
    /\ UNCHANGED <<stmVars, commVars, coreVars, wire, frame, nExchanges, history, sendVars, byteIo>>

\* ucaMsg_Buff with the header of a response: type, length, version, flags
Header(buf, type, len, ver) ==
    [buf EXCEPT ![MSG_TYP_IDX] = type, ![MSG_LEN_IDX] = U8(len),
                ![MSG_VER_IDX] = ver, ![MSG_FLAGS_IDX] = ShutdownFlags(buf)]

InSwitch(type) == pc = "switch" /\ ucaMsg_Buff[MSG_TYP_IDX] = type

\* case COMMAND_PKT, lines 280-299
DoCommandPkt ==
    /\ InSwitch(COMMAND_PKT)
    /\ \E rig \in SensorRigs, p1in \in {0, SDA_PIN} :
         LET c == vCOMM_SendMessage(ConfirmPKT, ConfirmPKT[MSG_LEN_IDX],
                                    g_ucCOMM_Flags, p1in)
             r == CommandLoop(ucaMsg_Buff, MSG_PAYLD_IDX, S_Report, 0, <<>>, rig)
         IN  /\ events' = Append(events, [op |-> "send", bytes |-> c.sent,
                                          aborted |-> c.aborted]) \o r.calls
             /\ unTransducerReturn' = r.ret
             /\ S_Report' = r.S
             /\ pc' = IF r.fault THEN "undefined" ELSE "wait_start"
    /\ UNCHANGED <<stmVars, commVars, ucaMsg_Buff, ucCommState, uiHID, infoD, uiSTM_type,
                   wire, frame, nExchanges, history, sendVars, byteIo>>

\* the response to REQUEST_DATA is a data report whatever the commands gave
ReportTypeAlwaysData(unReturn) == REPORT_DATA

\* lines 303-308: the type byte of the response to REQUEST_DATA
ReportType(unReturn) == IF unReturn # 0 THEN REPORT_ERROR ELSE REPORT_DATA

\* case REQUEST_DATA, lines 301-323
DoRequestData ==
    /\ InSwitch(REQUEST_DATA)
    /\ LET data == ucMain_FetchData(S_Report)
       IN  SendResponse(PutSeq(Header(ucaMsg_Buff,
                                      ReportType(unTransducerReturn),
                                      SP_HEADERSIZE + Len(data),
                                      SP_DATAMESSAGE_VERSION),
                               MSG_PAYLD_IDX, data))
    /\ UNCHANGED <<stmVars, commVars, unTransducerReturn, ucCommState, S_Report, uiHID, infoD,
                   uiSTM_type, wire, frame, nExchanges, history, sendVars, byteIo>>

\* case REQUEST_LABEL, lines 325-341
DoRequestLabel ==
    /\ InSwitch(REQUEST_LABEL)
    /\ SendResponse(PutSeq(Header(ucaMsg_Buff, REPORT_LABEL,
                                  SP_HEADERSIZE + TRANSDUCER_LABEL_LEN,
                                  SP_LABELMESSAGE_VERSION),
                           MSG_PAYLD_IDX, vMain_FetchLabel(ucaMsg_Buff[MSG_PAYLD_IDX])))
    /\ UNCHANGED <<stmVars, commVars, unTransducerReturn, ucCommState, S_Report, uiHID, infoD,
                   uiSTM_type, wire, frame, nExchanges, history, sendVars, byteIo>>

\* case REQUEST_BSL_PW, lines 344-361
DoRequestBslPw ==
    /\ InSwitch(REQUEST_BSL_PW)
    /\ SendResponse(PutSeq(Header(ucaMsg_Buff, REQUEST_BSL_PW,
                                  SP_HEADERSIZE + BSLPWDLEN, SP_DATAMESSAGE_VERSION),
                           MSG_PAYLD_IDX, BslPassword))
    /\ UNCHANGED <<stmVars, commVars, unTransducerReturn, ucCommState, S_Report, uiHID, infoD,
                   uiSTM_type, wire, frame, nExchanges, history, sendVars, byteIo>>

\* case INTERROGATE, lines 364-395
DoInterrogate ==
    /\ InSwitch(INTERROGATE)
    /\ SendResponse(PutSeq(Header(ucaMsg_Buff, INTERROGATE,
                                  2 * NUM_TRANSDUCERS + 13, SP_DATAMESSAGE_VERSION),
                           MSG_PAYLD_IDX, InterrogatePayload))
    /\ UNCHANGED <<stmVars, commVars, unTransducerReturn, ucCommState, S_Report, uiHID, infoD,
                   uiSTM_type, wire, frame, nExchanges, history, sendVars, byteIo>>

\* the identity cached without the read-back
RequestedHID(hid, stored) == hid

\* core.c:399-409 and 430: uiHID is assigned from the message, then read
\* back from flash by vFlash_GetHID (flash.c:368-381)
CachedHID(hid, stored) == stored

\* the identity words of an erased segment
ErasedHID == <<65535, 65535, 65535, 65535>>

\* case SET_SERIALNUM, lines 397-449.  ucFlash_SetHID (flash.c:331-360) erases
\* segment D and writes the four words; the write takes or leaves the words
\* erased.  It returns 0 either way (flash.c:355: the masked FCTL3 never
\* equals 0x9680), so the branch of line 431 is taken.
DoSetSerialnum ==
    /\ InSwitch(SET_SERIALNUM)
    /\ LET hid == [k \in 1..4 |-> ucaMsg_Buff[MSG_PAYLD_IDX + 2 * (k - 1)]
                                  + 256 * ucaMsg_Buff[MSG_PAYLD_IDX + 2 * (k - 1) + 1]]
       IN  \E stored \in {hid, ErasedHID} :
             LET got == CachedHID(hid, stored)
             IN  /\ infoD' = stored
                 /\ uiHID' = got
                 /\ SendResponse(PutSeq(Header(ucaMsg_Buff, SET_SERIALNUM,
                                               SP_HEADERSIZE + 8, SP_DATAMESSAGE_VERSION),
                                        MSG_PAYLD_IDX,
                                        <<got[1] % 256, got[1] \div 256, got[2] % 256,
                                          got[2] \div 256, got[3] % 256, got[3] \div 256,
                                          got[4] % 256, got[4] \div 256>>))
    /\ UNCHANGED <<stmVars, commVars, unTransducerReturn, ucCommState, S_Report,
                   uiSTM_type, wire, frame, nExchanges, history, sendVars, byteIo>>

\* case COMMAND_SENSOR_TYPE, lines 452-462: no message is sent
DoCommandSensorType ==
    /\ InSwitch(COMMAND_SENSOR_TYPE)
    /\ \E rig \in TypeRigs :
         uiSTM_type' = [c \in 1..NUM_TRANSDUCERS |->
                           IF rig[c].stored THEN rig[c].type ELSE uiSTM_type[c]]
    /\ pc' = "wait_start"
    /\ UNCHANGED <<stmVars, commVars, ucaMsg_Buff, unTransducerReturn, ucCommState, S_Report,
                   uiHID, infoD, wire, frame, nExchanges, history, events, sendVars, byteIo>>

\* case REQUEST_SENSOR_TYPE, lines 465-498
DoRequestSensorType ==
    /\ InSwitch(REQUEST_SENSOR_TYPE)
    /\ SendResponse(PutSeq(Header(ucaMsg_Buff, REQUEST_SENSOR_TYPE,
                                  SP_HEADERSIZE + 2, SP_DATAMESSAGE_VERSION),
                           SP_HEADERSIZE,
                           <<uiSTM_type[1], uiSTM_type[2], uiSTM_type[3], uiSTM_type[4]>>))
    /\ UNCHANGED <<stmVars, commVars, unTransducerReturn, ucCommState, S_Report, uiHID, infoD,
                   uiSTM_type, wire, frame, nExchanges, history, sendVars, byteIo>>

HandledTypes ==
    {COMMAND_PKT, REQUEST_DATA, REQUEST_LABEL, REQUEST_BSL_PW, INTERROGATE,
     SET_SERIALNUM, COMMAND_SENSOR_TYPE, REQUEST_SENSOR_TYPE}

\* default, lines 500-513
DoDefault ==
    /\ pc = "switch"
    /\ ucaMsg_Buff[MSG_TYP_IDX] \notin HandledTypes
    /\ SendResponse(Header(ucaMsg_Buff, REPORT_ERROR, SP_HEADERSIZE,
                           SP_DATAMESSAGE_VERSION))
    /\ UNCHANGED <<stmVars, commVars, unTransducerReturn, ucCommState, S_Report, uiHID, infoD,
                   uiSTM_type, wire, frame, nExchanges, history, sendVars, byteIo>>

Next ==
    \/ CpStartCondition
    \/ CpRetry
    \/ CallWaitForMessage
    \/ CallGrabMessage
    \/ SendErrorMsg
    \/ DoCommandPkt
    \/ DoRequestData
    \/ DoRequestLabel
    \/ DoRequestBslPw
    \/ DoInterrogate
    \/ DoSetSerialnum
    \/ DoCommandSensorType
    \/ DoRequestSensorType
    \/ DoDefault

Spec == Init /\ [][Next]_vars

(***************************************************************************)
(* SpecFrame: one frame received through ucCOMM_WaitForMessage and         *)
(* ucCOMM_GrabMessageFromBuffer with g_ucRXBufferIndex starting at 0, for  *)
(* every declared length 0..255.                                           *)
(***************************************************************************)
\* payload lengths of the frames corrupted in transit, and what is added to
\* the corrupted byte
CorruptLens == {1, 2, 8, 58}

Deltas == {1, 128, 255}

BadLengths == (0..(SP_HEADERSIZE - 1)) \cup ((MAXMSGLEN + 1)..255)

WideFrames ==
    {WellFormed(Msg(REQUEST_DATA, Pattern(L - SP_HEADERSIZE)), <<>>) :
        L \in SP_HEADERSIZE..MAXMSGLEN}
    \cup UNION {{Corrupt(Msg(REQUEST_DATA, Pattern(n)), SP_HEADERSIZE + k, d) :
                    k \in 1..n, d \in Deltas} : n \in CorruptLens}
    \cup {BadLength(t, L, 2) : t \in {COMMAND_PKT, REQUEST_DATA}, L \in BadLengths}
    \cup {Short(t, L) : t \in {COMMAND_PKT, REQUEST_DATA}, L \in 2..3}

CpSendFrame ==
    /\ pc = "wait_start"
    /\ nExchanges = 0
    /\ \E f \in WideFrames : StartFrame(f)

NextFrame == CpSendFrame \/ CallWaitForMessage \/ CallGrabMessage

InitFrame == Init /\ unTransducerReturn = 0

SpecFrame == InitFrame /\ [][NextFrame]_vars

(***************************************************************************)
(* SpecProgram: the program from main on.  main (main.c 751-764) has       *)
(* initialised the core and cleaned S_Report; vCORE_Run builds the         *)
(* announcement, sleeps in ucCOMM_WaitForStartCondition, is woken by an    *)
(* interrupt service routine of irupt.c, sends the announcement and        *)
(* enters its loop.  byteIo records the last return of                     *)
(* ucCOMM_WaitForStartCondition: the wake source, the value returned and   *)
(* the place of the call.                                                  *)
(***************************************************************************)
MaxWakes == 5

NWakes == Cardinality({k \in 1..Len(events) : events[k].op = "wake"})

\* comm.c 141-148: up to the LPM3 sleep
WaitForStartEnter(flags) == BitClear(flags, COMM_START_CONDITION)

\* comm.c 151-170: from the wake on, [ret, flags]
WaitForStartReturn(flags) ==
    IF BitAnd(flags, COMM_START_CONDITION) # 0
    THEN [ret |-> 1, flags |-> BitClear(flags, COMM_START_CONDITION)]
    ELSE [ret |-> 0, flags |-> flags]

InitProgram ==
    /\ pc = "boot"
    /\ InitComm /\ InitCp /\ InitSend /\ InitStm
    /\ ucaMsg_Buff = [i \in 0..(MAXMSGLEN - 1) |-> 0]
    /\ unTransducerReturn \in StackJunk
    /\ ucCommState = COMM_OK
    /\ S_Report = CleanReport
    /\ uiHID = FlashHID
    /\ infoD = FlashHID
    /\ uiSTM_type = [c \in 1..NUM_TRANSDUCERS |-> 82]
    /\ byteIo = NoByteIo

\* the identity words are written high byte first
AnnounceMsgHighFirst(hid, low) ==
    <<ID_PKT, 12, SP_DATAMESSAGE_VERSION, 0,
      hid[1] \div 256, hid[1] % 256, hid[2] \div 256, hid[2] % 256,
      hid[3] \div 256, hid[3] % 256, hid[4] \div 256, hid[4] % 256>>

\* vCORE_Run, lines 224-251: the first 12 bytes of ucaMsg_Buff (low: the
\* voltage unCORE_GetVoltage returns is below MIN_VOLTAGE)
AnnounceMsg(hid, low) ==
    IF low
    THEN <<REPORT_ERROR, 5, SP_DATAMESSAGE_VERSION, 0, 186, 209,
           hid[2] % 256, hid[2] \div 256,
           hid[3] % 256, hid[3] \div 256,
           hid[4] % 256, hid[4] \div 256>>
    ELSE <<ID_PKT, 12, SP_DATAMESSAGE_VERSION, 0,
           hid[1] % 256, hid[1] \div 256,
           hid[2] % 256, hid[2] \div 256,
           hid[3] % 256, hid[3] \div 256,
           hid[4] % 256, hid[4] \div 256>>

\* vCORE_Run, lines 223-253: the announcement is built and
\* ucCOMM_WaitForStartCondition goes to sleep
BuildAnnounce ==
    /\ pc = "boot"
    /\ \E low \in BOOLEAN :
         /\ ucaMsg_Buff' = PutSeq(ucaMsg_Buff, 0, AnnounceMsg(uiHID, low))
         /\ events' = <<[op |-> "voltage", low |-> low]>>
    /\ g_ucCOMM_Flags' = WaitForStartEnter(g_ucCOMM_Flags)
    /\ pc' = "sleep_announce"
    /\ UNCHANGED <<stmVars, g_ucaRXBuffer, g_ucRXBufferIndex, rxOverrun, ucRXMessageSize,
                   unTransducerReturn, ucCommState, S_Report, uiHID, infoD, uiSTM_type,
                   wire, frame, nExchanges, history, sendVars, byteIo>>

\* an interrupt service routine ends the sleep; none of them writes
\* g_ucCOMM_Flags
Wake(src) ==
    /\ pc \in {"sleep_announce", "sleep_loop"}
    /\ NWakes < MaxWakes
    /\ events' = Append(events, [op |-> "wake", src |-> src])
    /\ pc' = IF pc = "sleep_announce" THEN "woke_announce" ELSE "woke_loop"
    /\ UNCHANGED <<stmVars, commVars, coreVars, wire, frame, nExchanges, history, sendVars, byteIo>>

\* irupt.c 113-118: the falling edge of SDA
PORT1_ISR == Wake("SDA")

\* irupt.c 167-185: the INT pin (the interrupt of the SCL pin is not enabled)
PORT2_ISR == Wake("INT")

LastWake == events[Len(events)].src

\* lines 253-256: the value returned is not used, the announcement is sent
AnnounceSend ==
    /\ pc = "woke_announce"
    /\ LET w == WaitForStartReturn(g_ucCOMM_Flags)
       IN  /\ byteIo' = [fn |-> "wait_start", wake |-> LastWake, ret |-> w.ret,
                         at |-> "announce"]
           /\ \E p1in \in {0, SDA_PIN} :
                LET r == vCOMM_SendMessage(ucaMsg_Buff, ucaMsg_Buff[MSG_LEN_IDX],
                                           w.flags, p1in)
                IN  /\ ucaMsg_Buff' = r.buf
                    /\ events' = Append(events, [op |-> "send", bytes |-> r.sent,
                                                 aborted |-> r.aborted])
           /\ g_ucCOMM_Flags' = w.flags
    /\ pc' = "loop"
    /\ UNCHANGED <<stmVars, g_ucaRXBuffer, g_ucRXBufferIndex, rxOverrun, ucRXMessageSize,
                   unTransducerReturn, ucCommState, S_Report, uiHID, infoD, uiSTM_type,
                   wire, frame, nExchanges, history, sendVars>>

\* line 264: the call in the loop, up to the sleep
LoopSleep ==
    /\ pc = "loop"
    /\ g_ucCOMM_Flags' = WaitForStartEnter(g_ucCOMM_Flags)
    /\ pc' = "sleep_loop"
    /\ UNCHANGED <<stmVars, g_ucaRXBuffer, g_ucRXBufferIndex, rxOverrun, ucRXMessageSize,
                   coreVars, cpVars, sendVars, byteIo>>

\* lines 264-271: the return in the loop; vMain_EventTrigger (main.c
\* 716-728) has an empty body
LoopWoke ==
    /\ pc = "woke_loop"
    /\ LET w == WaitForStartReturn(g_ucCOMM_Flags)
       IN  /\ byteIo' = [fn |-> "wait_start", wake |-> LastWake, ret |-> w.ret,
                         at |-> "loop"]
           /\ g_ucCOMM_Flags' = w.flags
           /\ IF w.ret # 1
              THEN /\ events' = Append(events, [op |-> "event_trigger"])
                   /\ pc' = "loop"
              ELSE /\ events' = events
                   /\ pc' = "wait_msg"
    /\ UNCHANGED <<stmVars, g_ucaRXBuffer, g_ucRXBufferIndex, rxOverrun, ucRXMessageSize,
                   coreVars, wire, frame, nExchanges, history, sendVars>>

NextProgram ==
    \/ BuildAnnounce
    \/ PORT1_ISR
    \/ PORT2_ISR
    \/ AnnounceSend
    \/ LoopSleep
    \/ LoopWoke

SpecProgram == InitProgram /\ [][NextProgram]_vars

(***************************************************************************)
(* C1: for every declared length L outside 4..64, receiving a frame whose  *)
(* header declares L ends with COMM_BUFFER_UNDERFLOW or                    *)
(* COMM_BUFFER_OVERFLOW reported to the dispatch loop, and vCORE_Run does  *)
(* not enter the message-type switch for that frame.                       *)
(* (The statement of the claim; the code has no lower bound on L in        *)
(* ucCOMM_GrabMessageFromBuffer and accepts L + 2 >= 4 in                  *)
(* ucCOMM_WaitForMessage.)                                                 *)
(***************************************************************************)
Grabbed == pc \in {"switch", "error"}

C1_BadLengthRejected ==
    (Grabbed /\ FrameL(frame) \notin SP_HEADERSIZE..MAXMSGLEN) =>
        /\ ucCommState \in {COMM_BUFFER_UNDERFLOW, COMM_BUFFER_OVERFLOW}
        /\ pc = "error"

(***************************************************************************)
(* C2: for every message of declared length L in 4..64, the L + 2 bytes    *)
(* vCOMM_SendMessage transmits, received byte for byte from index 0, are   *)
(* accepted with COMM_OK and the L bytes copied out equal the message; if  *)
(* exactly one payload byte is changed in transit,                         *)
(* ucCOMM_GrabMessageFromBuffer does not return COMM_OK.                   *)
(* (The statement of the claim; ucCOMM_WaitForMessage rejects L + 2 > 64.) *)
(***************************************************************************)
C2_RoundTrip ==
    Grabbed =>
        /\ frame.kind = "wellformed" =>
              /\ ucCommState = COMM_OK
              /\ \A i \in 1..FrameL(frame) : ucaMsg_Buff[i - 1] = frame.msg[i]
        /\ frame.kind = "corrupt" => ucCommState # COMM_OK

(***************************************************************************)
(* C3: ucCOMM_WaitForStartCondition returns 1 when the wake was caused by  *)
(* the SDA falling-edge interrupt and 0 when it was caused by another      *)
(* source; vCORE_Run goes on to ucCOMM_WaitForMessage in the first case    *)
(* and calls vMain_EventTrigger, no byte received or sent, in the second.  *)
(* (The statement of the claim; no code sets COMM_START_CONDITION.)        *)
(***************************************************************************)
C3_StartConditionReturn ==
    (byteIo.fn = "wait_start" /\ byteIo.at = "loop" /\ pc \in {"loop", "wait_msg"}) =>
        /\ byteIo.wake = "SDA" => (byteIo.ret = 1 /\ pc = "wait_msg")
        /\ byteIo.wake # "SDA" =>
              /\ byteIo.ret = 0
              /\ pc = "loop"
              /\ events[Len(events)].op = "event_trigger"
              /\ g_ucRXBufferIndex = 0

(***************************************************************************)
(* C4: after any exchange, including one whose frame is rejected for bad   *)
(* length or CRC mismatch, vCORE_Run returns to the wait for a start       *)
(* condition, and the next well-formed frame the CP sends is received and  *)
(* answered according to its type.                                         *)
(* (The statement of the claim, as the states a well-formed frame may      *)
(* lead to; g_ucRXBufferIndex is reset only when a frame is accepted.)     *)
(***************************************************************************)
C4_NextFrameAnswered ==
    frame.kind = "wellformed" =>
        /\ pc \notin {"rx_starved", "rx_resume", "undefined", "error"}
        /\ pc = "wait_start" => (events # <<>> /\ events[1].ret = COMM_OK)

(***************************************************************************)
(* C5: whenever ucCOMM_GrabMessageFromBuffer returns a code c other than   *)
(* COMM_OK, vCORE_Run sends exactly one REPORT_ERROR message of length 5   *)
(* whose payload byte is c and whose flags byte is 0, invokes no dispatch  *)
(* or collaborator handler for that frame, and returns to the wait for a   *)
(* start condition.                                                        *)
(***************************************************************************)
ErrorReport(c) ==
    [op |-> "send",
     bytes |-> FrameBytes(<<REPORT_ERROR, 5, SP_DATAMESSAGE_VERSION, 0, c>>),
     aborted |-> FALSE]

C5_ErrorReport ==
    [][ /\ (pc = "grab" /\ ucCommState' # COMM_OK) =>
              (pc' = "error" /\ events' = <<[op |-> "grab", ret |-> ucCommState']>>)
        /\ pc = "error" =>
              /\ ucCommState # COMM_OK
              /\ events' = Append(events, ErrorReport(ucCommState))
              /\ Len(events') = 2
              /\ pc' = "wait_start"
              /\ UNCHANGED <<stmVars, unTransducerReturn, S_Report, uiHID, infoD, uiSTM_type>>
      ]_vars

C5_Witness ==
    /\ pc = "wait_start"
    /\ Len(events) = 2
    /\ events[1] = [op |-> "grab", ret |-> COMM_ERROR]
    /\ events[2] = ErrorReport(COMM_ERROR)

(***************************************************************************)
(* C10: on an accepted COMMAND_PKT, vCORE_Run sends the CONFIRM_COMMAND    *)
(* message (length 4) before the first call of uiMainDispatch, then calls  *)
(* uiMainDispatch once per triple of the payload, in payload order, and    *)
(* the aggregate result equals the bitwise OR of the values returned,      *)
(* starting from 0.                                                        *)
(***************************************************************************)
\* the OR of the values returned by the calls ev[k], ev[k + 1], ...
RECURSIVE OrOfReturns(_, _)
OrOfReturns(ev, k) ==
    IF k > Len(ev) THEN 0 ELSE BitOr(ev[k].ret, OrOfReturns(ev, k + 1))

CommandDone ==
    /\ pc = "wait_start"
    /\ frame.kind = "wellformed"
    /\ FrameType(frame) = COMMAND_PKT
    /\ events # <<>>
    /\ events[1] = [op |-> "grab", ret |-> COMM_OK]

Answered(type) ==
    /\ pc = "wait_start"
    /\ frame.kind = "wellformed"
    /\ FrameType(frame) = type
    /\ events # <<>>
    /\ events[1] = [op |-> "grab", ret |-> COMM_OK]

\* the earlier exchanges in which a COMMAND_PKT was processed (confirmed)
PastCommands ==
    {k \in 1..Len(history) :
        /\ Len(history[k].events) >= 2
        /\ history[k].events[2].op = "send"
        /\ history[k].events[2].bytes[1] = CONFIRM_COMMAND}

LastCommand == history[CHOOSE k \in PastCommands : \A j \in PastCommands : j <= k]

C11_ReportTypeFollowsAggregate ==
    (Answered(REQUEST_DATA) /\ PastCommands # {}) =>
        /\ Len(events) = 2
        /\ events[2].op = "send"
        /\ events[2].bytes[1] =
              IF OrOfReturns(LastCommand.events, 3) # 0 THEN REPORT_ERROR
              ELSE REPORT_DATA

C11_Witness ==
    /\ Answered(REQUEST_DATA)
    /\ PastCommands # {}
    /\ LastCommand.frame.cmds # <<>>
    /\ LastCommand.frame.cmds[1].id = 9
    /\ events[2].bytes[1] = REPORT_ERROR

(***************************************************************************)
(* C12: ucMain_FetchData writes, for exactly the report slots whose        *)
(* new-data flag is set and in ascending slot id, one group (slot id,      *)
(* length, the first length data bytes of the slot), nothing for the other *)
(* slots, and returns the sum over the flagged slots of (length + 2); the  *)
(* length byte of the REQUEST_DATA response is 4 plus that value.          *)
(***************************************************************************)
Flagged == {g \in 0..(NUMDATGEN - 1) : S_Report[g].m_ucFlags % 2 = 1}

\* the bytes the groups of the flagged slots below g take
RECURSIVE GroupOffset(_)
GroupOffset(g) ==
    IF g = 0 THEN 0
    ELSE GroupOffset(g - 1)
         + (IF (g - 1) \in Flagged THEN S_Report[g - 1].m_ucLength + 2 ELSE 0)

C12_FetchDataGroups ==
    Answered(REQUEST_DATA) =>
        LET b == events[2].bytes
        IN  /\ b[MSG_LEN_IDX + 1] = SP_HEADERSIZE + GroupOffset(NUMDATGEN)
            /\ Len(b) = b[MSG_LEN_IDX + 1] + CRC_SZ
            /\ \A g \in Flagged :
                  LET at == SP_HEADERSIZE + GroupOffset(g)
                  IN  /\ b[at + 1] = g
                      /\ b[at + 2] = S_Report[g].m_ucLength
                      /\ \A i \in 1..S_Report[g].m_ucLength :
                            b[at + 2 + i] = S_Report[g].m_ucaData[i]

C12_Witness ==
    /\ Answered(REQUEST_DATA)
    /\ Flagged = {0, 3, 4}
    /\ events[2].bytes[MSG_LEN_IDX + 1] > SP_HEADERSIZE + 6

(***************************************************************************)
(* C13: after a REQUEST_DATA has been answered, the new-data flag of every *)
(* report slot that was copied into the response is clear.                 *)
(* (The statement of the claim; no code clears m_ucFlags after start-up.)  *)
(***************************************************************************)
\* the slot ids of the groups of the message b from position i on
RECURSIVE ReportedIds(_, _)
ReportedIds(b, i) ==
    IF i > b[MSG_LEN_IDX + 1] THEN {}
    ELSE {b[i]} \cup ReportedIds(b, i + 2 + b[i + 1])

C13_FlagsClearedAfterReport ==
    Answered(REQUEST_DATA) =>
        \A g \in ReportedIds(events[2].bytes, MSG_PAYLD_IDX + 1) :
            BitAnd(S_Report[g].m_ucFlags, F_NEWDATA) = 0

(***************************************************************************)
(* C14: for any accepted message whose type is not one of the handled      *)
(* types, vCORE_Run sends exactly one REPORT_ERROR of length 4 (header     *)
(* only) whose flags bit 0 is 1 if and only if ucMain_ShutdownAllowed()    *)
(* returns 1.                                                              *)
(***************************************************************************)
\* vCORE_Run accepted the well-formed frame and is back at the wait
Accepted ==
    /\ pc = "wait_start"
    /\ frame.kind = "wellformed"
    /\ events # <<>>
    /\ events[1] = [op |-> "grab", ret |-> COMM_OK]

C14_UnknownTypeReport ==
    (Accepted /\ FrameType(frame) \notin HandledTypes) =>
        /\ Len(events) = 2
        /\ events[2].op = "send"
        /\ ~events[2].aborted
        /\ LET b == events[2].bytes
           IN  /\ Len(b) = SP_HEADERSIZE + CRC_SZ
               /\ b[MSG_TYP_IDX + 1] = REPORT_ERROR
               /\ b[MSG_LEN_IDX + 1] = SP_HEADERSIZE
               /\ (b[MSG_FLAGS_IDX + 1] % 2 = 1) <=> (ucMain_ShutdownAllowed = 1)
               /\ b = FrameBytes(SubSeq(b, 1, SP_HEADERSIZE))

C14_Witness ==
    /\ Accepted
    /\ FrameType(frame) = ID_PKT
    /\ events[2].bytes[MSG_TYP_IDX + 1] = REPORT_ERROR
    /\ events[2].bytes[MSG_FLAGS_IDX + 1] = 131

(***************************************************************************)
(* C15: every response that vCORE_Run sends for an accepted message (the   *)
(* confirm for a command included) has bit 0 of its flags byte set when    *)
(* ucMain_ShutdownAllowed() returns 1 and clear when it returns 0.         *)
(* (The statement of the claim; vCORE_Send_ConfirmPKT sends flags 0.)      *)
(***************************************************************************)
C15_ShutdownBitInEveryResponse ==
    Accepted =>
        \A k \in 2..Len(events) :
            events[k].op = "send" =>
                ((events[k].bytes[MSG_FLAGS_IDX + 1] % 2 = 1)
                     <=> (ucMain_ShutdownAllowed = 1))

(***************************************************************************)
(* C16: for every accepted message of type REQUEST_BSL_PW, SET_SERIALNUM,  *)
(* INTERROGATE, REQUEST_SENSOR_TYPE or COMMAND_SENSOR_TYPE, vCORE_Run      *)
(* sends exactly one response message before it next waits for a start     *)
(* condition.                                                              *)
(* (The statement of the claim; case COMMAND_SENSOR_TYPE sends nothing.)   *)
(***************************************************************************)
C16_OneResponse ==
    (Accepted /\ FrameType(frame) \in {REQUEST_BSL_PW, SET_SERIALNUM, INTERROGATE,
                                       REQUEST_SENSOR_TYPE, COMMAND_SENSOR_TYPE}) =>
        Cardinality({k \in 1..Len(events) : events[k].op = "send"}) = 1

(***************************************************************************)
(* C17: after start-up vCORE_Run sends exactly one message before it       *)
(* processes any received frame: an ID_PKT of length 12 carrying the four  *)
(* cached HID words, low byte first, when the measured supply voltage is   *)
(* at least MIN_VOLTAGE, and a REPORT_ERROR message in its place when the  *)
(* voltage is below MIN_VOLTAGE.                                           *)
(***************************************************************************)
Sends == {k \in 1..Len(events) : events[k].op = "send"}

C17_OneAnnouncement ==
    /\ pc \in {"boot", "sleep_announce", "woke_announce"} => Sends = {}
    /\ pc \in {"loop", "sleep_loop", "woke_loop", "wait_msg"} =>
          /\ Cardinality(Sends) = 1
          /\ LET b == events[CHOOSE k \in Sends : TRUE].bytes
             IN  IF events[1].low
                 THEN /\ b[MSG_TYP_IDX + 1] = REPORT_ERROR
                      /\ Len(b) = b[MSG_LEN_IDX + 1] + CRC_SZ
                      /\ b = FrameBytes(SubSeq(b, 1, b[MSG_LEN_IDX + 1]))
                 ELSE b = FrameBytes(<<ID_PKT, 12, SP_DATAMESSAGE_VERSION, 0,
                                       FlashHID[1] % 256, FlashHID[1] \div 256,
                                       FlashHID[2] % 256, FlashHID[2] \div 256,
                                       FlashHID[3] % 256, FlashHID[3] \div 256,
                                       FlashHID[4] % 256, FlashHID[4] \div 256>>)

C17_Witness ==
    /\ pc = "sleep_loop"
    /\ ~events[1].low
    /\ Cardinality(Sends) = 1
    /\ NWakes = 3
    /\ events[3].bytes[MSG_TYP_IDX + 1] = ID_PKT

(***************************************************************************)
(* STM.c: the routines that check and parse the line of a soil-moisture    *)
(* sensor in g_ucaSTM_RXBuffer.  A read outside the array is reported as   *)
(* fault.  char is the build's unsigned 8-bit type.                        *)
(***************************************************************************)
I16(x) == LET m == x % 65536 IN IF m >= 32768 THEN m - 65536 ELSE m

\* the do-while of cSTM_Test_Checksum from index idx on: [fault, idx, add]
RECURSIVE ChecksumScan(_, _, _)
ChecksumScan(buf, idx, add) ==
    IF idx + 1 >= RX_BUFFER_SIZE_STM
    THEN [fault |-> TRUE, idx |-> idx + 1, add |-> add + buf[idx]]
    ELSE IF buf[idx + 1] # 13
    THEN ChecksumScan(buf, idx + 1, add + buf[idx])
    ELSE [fault |-> FALSE, idx |-> idx + 1, add |-> add + buf[idx]]

\* the type byte is left out of the sum
cSTM_Test_ChecksumNoType(buf) ==
    LET s == ChecksumScan(buf, 0, 0)
    IN  IF s.fault \/ s.idx + 2 >= RX_BUFFER_SIZE_STM
        THEN [fault |-> TRUE, idx |-> s.idx, ret |-> 1]
        ELSE [fault |-> FALSE, idx |-> s.idx,
              ret |-> IF buf[s.idx + 2] = ((s.add + buf[s.idx]) % 64) + 32
                      THEN 0 ELSE 1]

\* cSTM_Test_Checksum: [fault, idx, ret], ret 0 = the checksum matches
cSTM_Test_Checksum(buf) ==
    LET s == ChecksumScan(buf, 0, 0)
    IN  IF s.fault \/ s.idx + 2 >= RX_BUFFER_SIZE_STM
        THEN [fault |-> TRUE, idx |-> s.idx, ret |-> 1]
        ELSE [fault |-> FALSE, idx |-> s.idx,
              ret |-> IF buf[s.idx + 2]
                           = ((s.add + buf[s.idx] + buf[s.idx + 1]) % 64) + 32
                      THEN 0 ELSE 1]

\* the index of the first carriage return, RX_BUFFER_SIZE_STM if there is none
RECURSIVE FindCR(_, _)
FindCR(buf, i) ==
    IF i >= RX_BUFFER_SIZE_STM \/ buf[i] = 13 THEN i ELSE FindCR(buf, i + 1)

\* while (buf[--idx] != ' ' && idx != 0) of cSTM_ReadValue: [fault, idx, val];
\* mps: the loop of case MPS6, which skips '.' and negates at '-'
RECURSIVE TempLoop(_, _, _, _, _)
TempLoop(buf, idx, val, mult, mps) ==
    LET i == (idx + 255) % 256
    IN  IF i >= RX_BUFFER_SIZE_STM THEN [fault |-> TRUE, idx |-> i, val |-> val]
        ELSE IF buf[i] = 32 \/ i = 0 THEN [fault |-> FALSE, idx |-> i, val |-> val]
        ELSE IF mps /\ buf[i] = 46 THEN TempLoop(buf, i, val, mult, mps)
        ELSE LET v == I16(val + (buf[i] - 48) * mult)
             IN  \* the int16 result depends on ulMult modulo 2^16 only
                 TempLoop(buf, i, IF mps /\ buf[i] = 45 THEN I16(0 - v) ELSE v,
                          (mult * 10) % 65536, mps)

\* while (buf[idx--] != ' ' && idx != 0) ; of case FIVETE: [fault, idx]
RECURSIVE SkipLoop(_, _)
SkipLoop(buf, idx) ==
    LET i == (idx + 255) % 256
    IN  IF idx >= RX_BUFFER_SIZE_STM THEN [fault |-> TRUE, idx |-> i]
        ELSE IF buf[idx] # 32 /\ i # 0 THEN SkipLoop(buf, i)
        ELSE [fault |-> FALSE, idx |-> i]

\* while (idx-- != 0) of the cases FIVETM and FIVETE: [fault, idx, val]
RECURSIVE SoilLoop(_, _, _, _)
SoilLoop(buf, idx, val, mult) ==
    IF idx = 0 THEN [fault |-> FALSE, idx |-> 255, val |-> val]
    ELSE IF idx - 1 >= RX_BUFFER_SIZE_STM
    THEN [fault |-> TRUE, idx |-> idx - 1, val |-> val]
    ELSE SoilLoop(buf, idx - 1, val + (buf[idx - 1] - 48) * mult, mult * 10)

\* while (buf[--idx] != '-') of case MPS6: [fault, idx, val]
RECURSIVE MpsSoilLoop(_, _, _, _)
MpsSoilLoop(buf, idx, val, mult) ==
    LET i == (idx + 255) % 256
    IN  IF i >= RX_BUFFER_SIZE_STM THEN [fault |-> TRUE, idx |-> i, val |-> val]
        ELSE IF buf[i] = 45 THEN [fault |-> FALSE, idx |-> i, val |-> val]
        ELSE IF buf[i] = 46 THEN MpsSoilLoop(buf, i, val, mult)
        ELSE MpsSoilLoop(buf, i, val + (buf[i] - 48) * mult, mult * 10)

\* cSTM_ReadValue: [fault, idx, soil, temp] from the buffer and the readings
\* held before.  Without a carriage return below index 19 the type byte is
\* not a byte of the buffer (fault).
cSTM_ReadValue(buf, soil, temp) ==
    LET cr == FindCR(buf, 0)
        same == [fault |-> FALSE, idx |-> cr, soil |-> soil, temp |-> temp]
    IN  IF cr + 1 >= RX_BUFFER_SIZE_STM THEN [same EXCEPT !.fault = TRUE]
        ELSE IF buf[cr + 1] \in {FIVETM, FIVETE}
        THEN LET t == TempLoop(buf, cr, 0, 1, FALSE)
                 k == IF buf[cr + 1] = FIVETM
                      THEN [fault |-> FALSE, idx |-> (t.idx + 254) % 256]
                      ELSE SkipLoop(buf, t.idx)
                 s == SoilLoop(buf, k.idx, 0, 1)
             IN  IF t.fault THEN [same EXCEPT !.fault = TRUE, !.idx = t.idx]
                 ELSE IF k.fault THEN [same EXCEPT !.fault = TRUE, !.idx = k.idx]
                 ELSE [fault |-> s.fault, idx |-> s.idx, soil |-> s.val,
                       temp |-> t.val]
        ELSE IF buf[cr + 1] = MPS6
        THEN LET t == TempLoop(buf, cr, 0, 1, TRUE)
                 s == MpsSoilLoop(buf, (t.idx + 255) % 256, 0, 1)
             IN  IF t.fault THEN [same EXCEPT !.fault = TRUE, !.idx = t.idx]
                 ELSE [fault |-> s.fault, idx |-> s.idx, soil |-> 0 - s.val,
                       temp |-> t.val]
        ELSE same

(***************************************************************************)
(* SpecMeasure: cSTM_Measure and cSTM_RequestSensorType (STM.c) running    *)
(* against a sensor, with the interrupt service routines of irupt.c that   *)
(* receive its bytes.  The sensor sends the bytes of its line one after    *)
(* the other, each as a start bit, 8 data bits (bit 0 first) and a stop    *)
(* bit.  The 12.5 ms delay before the receiver is enabled has passed when  *)
(* the call enters its wait loop.  The interrupts come while the CPU       *)
(* sleeps: a bit lasts 3333 timer ticks (comm.h:186) and the loop body a   *)
(* few instructions, so the loop is asleep again before the next expiry.   *)
(***************************************************************************)
MaxMeasures == 2
MaxStrayEdges == 1

RECURSIVE SumSeq(_)
SumSeq(s) == IF s = <<>> THEN 0 ELSE s[1] + SumSeq(Tail(s))

Digits(n) ==
    IF n >= 1000 THEN <<48 + (n \div 1000), 48 + ((n \div 100) % 10),
                        48 + ((n \div 10) % 10), 48 + (n % 10)>>
    ELSE IF n >= 100 THEN <<48 + (n \div 100), 48 + ((n \div 10) % 10), 48 + (n % 10)>>
    ELSE IF n >= 10 THEN <<48 + (n \div 10), 48 + (n % 10)>>
    ELSE <<48 + n>>

\* a line of a 5TM sensor: moisture, space, temperature, CR, 'x', checksum
\* (raised by delta), CR, LF
Line5TM(moisture, temp, delta) ==
    LET body == Digits(moisture) \o <<32>> \o Digits(temp)
    IN  [type |-> FIVETM, moisture |-> moisture, temp |-> temp,
         ok |-> delta = 0,
         bytes |-> body \o <<13, FIVETM,
                              (((SumSeq(body) + 13 + FIVETM) % 64) + 32 + delta) % 256,
                              13, 10>>]

\* a sensor that sends n bytes, none of them the terminator
Babble(n) ==
    [type |-> 0, moisture |-> 0, temp |-> 0, ok |-> FALSE,
     bytes |-> [i \in 1..n |-> 65]]

\* the line followed by one more byte
Trailing(l) == [l EXCEPT !.bytes = Append(@, 65)]

SensorLines ==
    { Line5TM(1234, 567, 0), Line5TM(1234, 567, 1), Line5TM(12, 7, 0),
      Trailing(Line5TM(12, 7, 0)), Babble(0), Babble(12), Babble(22) }

InitMeasure ==
    /\ pc = "stm_idle"
    /\ InitComm /\ InitCore /\ InitCp /\ InitSend /\ InitStm
    /\ byteIo = NoByteIo

\* the excitation pin is left as it is
PowerStaysOn(out, ch) == out

\* STM.c:181 and 303: P_STM_PWR_OUT &= ~ucaSTMExciteBits[ucChannelIdx]
PowerOff(out, ch) == out \ {ch}

\* STM.c:126-168 and 245-290: the call up to the first sleep of its wait loop
EnterWait(fn, ch, limit) ==
    /\ pc = "stm_idle"
    /\ IF call.fn = "none" THEN TRUE ELSE call.n < MaxMeasures
    /\ \E l \in SensorLines :
         /\ sensor' = [line |-> l.bytes, cur |-> 0]
         /\ call' = [fn |-> fn, ch |-> ch, limit |-> limit, line |-> l,
                     n |-> IF call.fn = "none" THEN 1 ELSE call.n + 1,
                     cycles |-> 0, term |-> FALSE, ret |-> 0,
                     soil |-> lSTM_Soil, temp |-> nSTM_Temperature,
                     \* the call wrote the index with g_ucSTM_RXBusy set
                     busyWrite |-> g_ucSTM_RXBusy = 1,
                     stray |-> 0]
    /\ g_ucSTM_RXBufferIndex' = 0
    /\ timeoutcounter' = 0
    /\ stmRxIE' = TRUE
    /\ P_STM_RX_IFG' = FALSE
    /\ TBCCTL1_CCIE' = FALSE
    /\ TBCTL_MC' = TRUE
    /\ P_STM_PWR_OUT' = P_STM_PWR_OUT \cup {ch}
    /\ pc' = "stm_asleep"
    /\ UNCHANGED <<commVars, coreVars, cpVars, sendVars, byteIo, g_ucaSTM_RXBuffer,
                   g_ucSTM_RXBitsLeft, g_ucSTM_RXBusy, lSTM_Soil, nSTM_Temperature>>

cSTM_Measure == EnterWait("measure", 1, 10)

cSTM_RequestSensorType == EnterWait("type", 2, 3)

\* irupt.c:120-153, the branch of PORT1_ISR for the sensor pin
StartByte ==
    /\ timeoutcounter' = 0
    /\ stmRxIE' = FALSE
    /\ P_STM_RX_IFG' = FALSE
    /\ g_ucSTM_RXBitsLeft' = 8
    /\ g_ucSTM_RXBusy' = 1
    /\ TBCCTL1_CCIE' = TRUE
    /\ TBCTL_MC' = TRUE

\* irupt.c:120-153, PORT1_ISR for the falling edge on the sensor pin: the
\* start bit of the sensor's next byte
PORT1_ISR_STM ==
    /\ pc = "stm_asleep"
    /\ stmRxIE
    /\ sensor.line # <<>>
    /\ sensor' = [line |-> Tail(sensor.line), cur |-> Head(sensor.line)]
    /\ StartByte
    /\ pc' = "stm_awake"
    /\ UNCHANGED <<commVars, coreVars, cpVars, sendVars, byteIo, g_ucaSTM_RXBuffer,
                   g_ucSTM_RXBufferIndex, lSTM_Soil, nSTM_Temperature, P_STM_PWR_OUT,
                   call>>

\* the pin of the sensor measured last falls after the call has returned (its
\* excitation has been switched off) and stays low: the port flags the edge,
\* the interrupt of the pin being disabled
SensorPinFalls ==
    /\ pc = "stm_idle"
    /\ call.fn \in {"measure", "type"}
    /\ call.stray < MaxStrayEdges
    /\ ~stmRxIE
    /\ ~P_STM_RX_IFG
    /\ P_STM_RX_IFG' = TRUE
    /\ sensor' = [line |-> <<>>, cur |-> 0]
    /\ call' = [call EXCEPT !.stray = @ + 1]
    /\ UNCHANGED <<pc, commVars, coreVars, cpVars, sendVars, byteIo, g_ucaSTM_RXBuffer,
                   g_ucSTM_RXBufferIndex, g_ucSTM_RXBitsLeft, g_ucSTM_RXBusy,
                   timeoutcounter, lSTM_Soil, nSTM_Temperature, stmRxIE, TBCCTL1_CCIE,
                   TBCTL_MC, P_STM_PWR_OUT>>

\* irupt.c:113-154, PORT1_ISR entered for an edge on the data line of the bus
\* while vCORE_Run waits for a start condition (comm.c:144-148): the branch
\* for the sensor pin tests the flag of the pin, not its interrupt enable.
\* Without a flagged edge the routine changes nothing here.  The return of
\* the cSTM_ call left TBCTL = TBCLR (STM.c:183, 305), which selects the
\* external TBCLK input as the timer's clock: the half-bit wait of
\* irupt.c:132 ends if that input is clocked and never ends if it is not.
PORT1_ISR_SDA ==
    /\ pc = "stm_idle"
    /\ P_STM_RX_IFG
    /\ \/ /\ StartByte
          /\ pc' = pc
       \/ /\ pc' = "isr_spin"
          /\ timeoutcounter' = 0
          /\ TBCCTL1_CCIE' = FALSE
          /\ TBCTL_MC' = TRUE
          /\ UNCHANGED <<stmRxIE, P_STM_RX_IFG, g_ucSTM_RXBitsLeft, g_ucSTM_RXBusy>>
    /\ UNCHANGED <<commVars, coreVars, cpVars, sendVars, byteIo, g_ucaSTM_RXBuffer,
                   g_ucSTM_RXBufferIndex, lSTM_Soil, nSTM_Temperature, P_STM_PWR_OUT,
                   sensor, call>>

\* the level of the sensor pin at the bit-timer expiry with bitsLeft bits left
PinHigh(bitsLeft) == (sensor.cur \div (2 ^ (8 - bitsLeft))) % 2 = 1

\* every sample is shifted down, the last one too
SampleIntoShifted(b, high, bitsLeft) ==
    (IF high THEN (b % 128) + 128 ELSE b % 128) \div 2

\* irupt.c:65-81: the slot after the sample with bitsLeft bits left (1..8)
SampleInto(b, high, bitsLeft) ==
    LET top == IF high THEN (b % 128) + 128 ELSE b % 128
    IN  IF bitsLeft = 1 THEN top ELSE top \div 2

\* irupt.c:49-85, TIMERB1_ISR case TBIV_TBCCR1 with the receiver busy: the
\* timer, cleared at each expiry, reaches TBCCR1 one bit time later
TIMERB1_ISR ==
    /\ pc \in {"stm_asleep", "stm_idle"}
    /\ TBCTL_MC
    /\ TBCCTL1_CCIE
    /\ g_ucSTM_RXBusy = 1
    /\ LET i == g_ucSTM_RXBufferIndex
           inside == i < RX_BUFFER_SIZE_STM
           b == IF inside THEN g_ucaSTM_RXBuffer[i] ELSE 0
       IN  IF g_ucSTM_RXBitsLeft = 0
           THEN /\ stmRxIE' = TRUE
                /\ P_STM_RX_IFG' = FALSE
                /\ g_ucSTM_RXBufferIndex' = (i + 1) % 256
                /\ g_ucSTM_RXBusy' = 0
                /\ call' = IF inside /\ b = 10 /\ pc = "stm_asleep"
                           THEN [call EXCEPT !.term = TRUE] ELSE call
                /\ UNCHANGED <<pc, g_ucaSTM_RXBuffer>>
           ELSE /\ IF inside
                   THEN /\ g_ucaSTM_RXBuffer' =
                              [g_ucaSTM_RXBuffer EXCEPT
                                 ![i] = SampleInto(b, PinHigh(g_ucSTM_RXBitsLeft),
                                                   g_ucSTM_RXBitsLeft)]
                        /\ pc' = pc
                   ELSE \* the store is outside the array
                        /\ pc' = "undefined"
                        /\ UNCHANGED g_ucaSTM_RXBuffer
                /\ UNCHANGED <<stmRxIE, P_STM_RX_IFG, g_ucSTM_RXBufferIndex,
                               g_ucSTM_RXBusy, call>>
    /\ g_ucSTM_RXBitsLeft' = (g_ucSTM_RXBitsLeft + 255) % 256
    /\ UNCHANGED <<commVars, coreVars, cpVars, sendVars, byteIo, timeoutcounter,
                   lSTM_Soil, nSTM_Temperature, sensor, TBCCTL1_CCIE, TBCTL_MC,
                   P_STM_PWR_OUT>>

\* irupt.c:49-51, 84 and 87-90: a round of the free-running timer with the
\* receiver idle.  TBCCR1 (3333) comes first and, if its interrupt is enabled,
\* only decrements g_ucSTM_RXBitsLeft; TBCCR2 (50000) wakes the CPU.  While a
\* byte is received every bit expiry clears the timer before it gets there,
\* and the sensor sends the bytes of its line without a pause that long.
TIMERB1_ISR_CCR2 ==
    /\ pc = "stm_asleep"
    /\ ~TBCCTL1_CCIE \/ (g_ucSTM_RXBusy = 0 /\ sensor.line = <<>>)
    /\ g_ucSTM_RXBitsLeft' = IF TBCCTL1_CCIE THEN (g_ucSTM_RXBitsLeft + 255) % 256
                              ELSE g_ucSTM_RXBitsLeft
    /\ pc' = "stm_awake"
    /\ UNCHANGED <<commVars, coreVars, cpVars, sendVars, byteIo, g_ucaSTM_RXBuffer,
                   g_ucSTM_RXBufferIndex, g_ucSTM_RXBusy, timeoutcounter, lSTM_Soil,
                   nSTM_Temperature, stmRxIE, TBCCTL1_CCIE, TBCTL_MC, P_STM_RX_IFG,
                   P_STM_PWR_OUT, sensor, call>>

\* STM.c:169-197 and 291-352: from the wake inside the wait loop to the next
\* sleep or to the return
WaitLoopWake ==
    /\ pc = "stm_awake"
    /\ LET tc == (timeoutcounter + 1) % 256
           i == g_ucSTM_RXBufferIndex
           outside == i > RX_BUFFER_SIZE_STM
           found == i > 0 /\ ~outside /\ g_ucaSTM_RXBuffer[i - 1] = 10
           c == [call EXCEPT !.cycles = @ + 1]
           \* cSTM_Test_Checksum and what follows write g_ucSTM_RXBufferIndex
           w == [c EXCEPT !.busyWrite = @ \/ g_ucSTM_RXBusy = 1]
           chk == cSTM_Test_Checksum(g_ucaSTM_RXBuffer)
           rd == cSTM_ReadValue(g_ucaSTM_RXBuffer, lSTM_Soil, nSTM_Temperature)
           cr == FindCR(g_ucaSTM_RXBuffer, 0)
       IN  /\ timeoutcounter' = tc
           /\ IF outside
              THEN \* the terminator test reads outside the array
                   /\ pc' = "undefined"
                   /\ call' = c
                   /\ UNCHANGED <<stmRxIE, P_STM_RX_IFG, P_STM_PWR_OUT, TBCTL_MC,
                                  g_ucSTM_RXBufferIndex, lSTM_Soil,
                                  nSTM_Temperature, uiSTM_type>>
              ELSE IF ~found /\ tc < call.limit
              THEN /\ pc' = "stm_asleep"
                   /\ call' = c
                   /\ UNCHANGED <<stmRxIE, P_STM_RX_IFG, P_STM_PWR_OUT, TBCTL_MC,
                                  g_ucSTM_RXBufferIndex, lSTM_Soil,
                                  nSTM_Temperature, uiSTM_type>>
              ELSE /\ stmRxIE' = FALSE
                   /\ P_STM_RX_IFG' = FALSE
                   /\ P_STM_PWR_OUT' = PowerOff(P_STM_PWR_OUT, call.ch)
                   /\ TBCTL_MC' = FALSE
                   /\ IF tc >= call.limit
                      THEN /\ call' = [c EXCEPT !.ret = 2]
                           /\ pc' = "stm_idle"
                           /\ UNCHANGED <<g_ucSTM_RXBufferIndex, lSTM_Soil,
                                          nSTM_Temperature, uiSTM_type>>
                      ELSE IF chk.fault
                      THEN /\ call' = w
                           /\ pc' = "undefined"
                           /\ g_ucSTM_RXBufferIndex' = chk.idx
                           /\ UNCHANGED <<lSTM_Soil, nSTM_Temperature, uiSTM_type>>
                      ELSE IF chk.ret # 0
                      THEN /\ call' = [w EXCEPT !.ret = 1]
                           /\ pc' = "stm_idle"
                           /\ g_ucSTM_RXBufferIndex' = chk.idx
                           /\ UNCHANGED <<lSTM_Soil, nSTM_Temperature, uiSTM_type>>
                      ELSE IF call.fn = "measure"
                      THEN /\ call' = w
                           /\ pc' = IF rd.fault THEN "undefined" ELSE "stm_idle"
                           /\ g_ucSTM_RXBufferIndex' = rd.idx
                           /\ lSTM_Soil' = rd.soil
                           /\ nSTM_Temperature' = rd.temp
                           /\ UNCHANGED uiSTM_type
                      ELSE /\ call' = w
                           /\ g_ucSTM_RXBufferIndex' = cr
                           /\ IF cr + 1 < RX_BUFFER_SIZE_STM
                              THEN /\ pc' = "stm_idle"
                                   /\ uiSTM_type' = [uiSTM_type EXCEPT
                                          ![call.ch] = g_ucaSTM_RXBuffer[cr + 1]]
                              ELSE /\ pc' = "undefined"
                                   /\ UNCHANGED uiSTM_type
                           /\ UNCHANGED <<lSTM_Soil, nSTM_Temperature>>
    /\ UNCHANGED <<commVars, ucaMsg_Buff, unTransducerReturn, ucCommState, S_Report,
                   uiHID, infoD, cpVars, sendVars, byteIo, g_ucaSTM_RXBuffer,
                   g_ucSTM_RXBitsLeft, g_ucSTM_RXBusy, TBCCTL1_CCIE, sensor>>

NextMeasure ==
    \/ cSTM_Measure
    \/ cSTM_RequestSensorType
    \/ PORT1_ISR_STM
    \/ SensorPinFalls
    \/ PORT1_ISR_SDA
    \/ TIMERB1_ISR
    \/ TIMERB1_ISR_CCR2
    \/ WaitLoopWake

SpecMeasure == InitMeasure /\ [][NextMeasure]_vars

\* the cSTM_ call has returned and nothing has happened on its pin since
Returned == pc = "stm_idle" /\ call.fn # "none" /\ call.stray = 0

(***************************************************************************)
(* C18: with a sensor that sends no 0x0A terminator byte, whatever else it *)
(* sends, cSTM_Measure goes through at most 10 sleep/wake cycles and       *)
(* cSTM_RequestSensorType through at most 3, and the call returns 2.       *)
(***************************************************************************)
C18_BoundedWait ==
    (call.fn # "none" /\ \A k \in DOMAIN call.line.bytes : call.line.bytes[k] # 10) =>
        /\ call.cycles <= call.limit
        /\ Returned => call.ret = 2

(***************************************************************************)
(* C19: after cSTM_Measure has accepted a line of a 5TM sensor (moisture   *)
(* digits, space, temperature digits, CR, 'x'), the moisture reading is    *)
(* the decimal value of the moisture digits and the temperature reading    *)
(* the decimal value of the temperature digits.                            *)
(***************************************************************************)
C19_ReadValue5TM ==
    (Returned /\ call.fn = "measure" /\ call.ret = 0 /\ call.line.type = FIVETM) =>
        /\ lSTM_Soil = call.line.moisture
        /\ nSTM_Temperature = call.line.temp

\* the checksum the line in the buffer should carry: the sum of the bytes from
\* index 0 through the first carriage return, plus the type byte, mod 64, + 32
ExpectedChecksum(buf) ==
    LET cr == FindCR(buf, 0)
    IN  ((SumSeq([i \in 1..(cr + 1) |-> buf[i - 1]]) + buf[cr + 1]) % 64) + 32

LineAccepted(buf) == buf[FindCR(buf, 0) + 2] = ExpectedChecksum(buf)

BufferWith(bytes) ==
    [i \in 0..(RX_BUFFER_SIZE_STM - 1) |-> IF i < Len(bytes) THEN bytes[i + 1] ELSE 255]

\* lines with a right checksum
GoodLines == {l \in SensorLines : l.ok}

InitChecksum ==
    /\ pc = "chk_line"
    /\ InitComm /\ InitCore /\ InitCp /\ InitSend
    /\ byteIo = NoByteIo
    /\ \E l \in GoodLines :
         /\ g_ucaSTM_RXBuffer = BufferWith(l.bytes)
         /\ g_ucSTM_RXBufferIndex = Len(l.bytes)
         /\ call = [fn |-> "checksum", line |-> l, pos |-> 0, old |-> 0, ret |-> 0]
    /\ g_ucSTM_RXBitsLeft = 255
    /\ g_ucSTM_RXBusy = 0
    /\ timeoutcounter = 2
    /\ lSTM_Soil = 0
    /\ nSTM_Temperature = 0
    /\ stmRxIE = FALSE
    /\ TBCCTL1_CCIE = TRUE
    /\ TBCTL_MC = FALSE
    /\ P_STM_RX_IFG = FALSE
    /\ P_STM_PWR_OUT = {}
    /\ sensor = [line |-> <<>>, cur |-> 10]

\* one byte of the line, up to the checksum byte, arrives with another value
ChangeByte ==
    /\ pc = "chk_line"
    /\ \E pos \in 0..(FindCR(g_ucaSTM_RXBuffer, 0) + 2),
          val \in 0..255 :
         /\ val # g_ucaSTM_RXBuffer[pos]
         /\ g_ucaSTM_RXBuffer' = [g_ucaSTM_RXBuffer EXCEPT ![pos] = val]
         /\ call' = [call EXCEPT !.pos = pos, !.old = g_ucaSTM_RXBuffer[pos]]
    /\ pc' = "chk_changed"
    /\ UNCHANGED <<commVars, coreVars, cpVars, sendVars, byteIo, g_ucSTM_RXBufferIndex,
                   g_ucSTM_RXBitsLeft, g_ucSTM_RXBusy, timeoutcounter, lSTM_Soil,
                   nSTM_Temperature, stmRxIE, TBCCTL1_CCIE, TBCTL_MC, P_STM_RX_IFG,
                   P_STM_PWR_OUT, sensor>>

\* STM.c:211-230 on the buffer as it is, the line unchanged or changed
TestChecksum ==
    /\ pc \in {"chk_line", "chk_changed"}
    /\ LET chk == cSTM_Test_Checksum(g_ucaSTM_RXBuffer)
       IN  /\ g_ucSTM_RXBufferIndex' = chk.idx
           /\ call' = [call EXCEPT !.ret = chk.ret]
           /\ pc' = IF chk.fault THEN "undefined"
                    ELSE IF pc = "chk_line" THEN "chk_done_line" ELSE "chk_done"
    /\ UNCHANGED <<commVars, coreVars, cpVars, sendVars, byteIo, g_ucaSTM_RXBuffer,
                   g_ucSTM_RXBitsLeft, g_ucSTM_RXBusy, timeoutcounter, lSTM_Soil,
                   nSTM_Temperature, stmRxIE, TBCCTL1_CCIE, TBCTL_MC, P_STM_RX_IFG,
                   P_STM_PWR_OUT, sensor>>

NextChecksum ==
    \/ ChangeByte
    \/ TestChecksum

SpecChecksum == InitChecksum /\ [][NextChecksum]_vars

(***************************************************************************)
(* C21: a line that cSTM_Test_Checksum accepts is rejected after any one   *)
(* of its bytes, up to and including the checksum byte, has been changed   *)
(* to any other value.                                                     *)
(***************************************************************************)
C21_AnyChangeRejected ==
    /\ pc = "chk_done_line" => call.ret = 0
    /\ pc = "chk_done" => call.ret = 1

\* the value in the first m_ucLength data bytes of a report slot, high byte first
RECURSIVE SlotValue(_, _)
SlotValue(slot, n) ==
    IF n = 0 THEN 0 ELSE 256 * SlotValue(slot, n - 1) + slot.m_ucaData[n]

\* the slot holds nothing but the one-byte code
CodeSlot(slot, code) ==
    /\ slot.m_ucFlags = F_NEWDATA
    /\ slot.m_ucLength = 1
    /\ slot.m_ucaData[1] = code

\* the slots 2k-1 and 2k after the handler of channel k got the measurement meas
SlotsHold(k, meas) ==
    LET a == S_Report[2 * k - 1]
        b == S_Report[2 * k]
    IN  IF meas.cResult = 0
        THEN /\ a.m_ucFlags = F_NEWDATA
             /\ b.m_ucFlags = F_NEWDATA
             /\ SlotValue(a, a.m_ucLength) = meas.lSoil
             /\ b.m_ucLength = 2
             /\ SlotValue(b, 2) = meas.iTemperature
        ELSE /\ CodeSlot(a, meas.cResult)
             /\ CodeSlot(b, meas.cResult)

\* the calls of transducer handlers among the events ev
HandlerCalls(ev) ==
    {i \in 1..Len(ev) : ev[i].op = "dispatch" /\ ev[i].id \in 1..NUM_TRANSDUCERS}

OnlyHandlerCalls(ev) ==
    /\ HandlerCalls(ev) # {}
    /\ \A i \in 3..Len(ev) : i \in HandlerCalls(ev)

SendsIn(ev) == {ev[i] : i \in {j \in 1..Len(ev) : ev[j].op = "send"}}

AllSends ==
    SendsIn(events) \cup UNION {SendsIn(history[k].events) : k \in 1..Len(history)}

\* every slot is flagged and the soil slots hold four bytes
AllSlotsFull ==
    /\ \A g \in 0..(NUMDATGEN - 1) : S_Report[g].m_ucFlags = F_NEWDATA
    /\ \A k \in 1..NUM_TRANSDUCERS : S_Report[2 * k - 1].m_ucLength = 4

(***************************************************************************)
(* C23: every message vCORE_Run hands to vCOMM_SendMessage has a length    *)
(* byte L with 4 <= L <= 64 that is the ucLength argument (L bytes and the *)
(* 2 CRC bytes are sent), and L + 2 fits in the 64-byte message buffer,    *)
(* whatever the report slots hold and whatever was received.               *)
(***************************************************************************)
C23_LengthInBounds ==
    /\ \A low \in BOOLEAN :
          AnnounceMsg(uiHID, low)[MSG_LEN_IDX + 1] \in SP_HEADERSIZE..(MAXMSGLEN - CRC_SZ)
    /\ \A s \in AllSends :
          /\ Len(s.bytes) > MSG_LEN_IDX
          /\ s.bytes[MSG_LEN_IDX + 1] >= SP_HEADERSIZE
          /\ s.bytes[MSG_LEN_IDX + 1] <= MAXMSGLEN
          /\ s.bytes[MSG_LEN_IDX + 1] + CRC_SZ <= MAXMSGLEN
          /\ ~s.aborted => Len(s.bytes) = s.bytes[MSG_LEN_IDX + 1] + CRC_SZ

C23_Witness ==
    /\ Answered(REQUEST_DATA)
    /\ AllSlotsFull
    /\ events[2].bytes[MSG_TYP_IDX + 1] = REPORT_DATA
    /\ events[2].bytes[MSG_LEN_IDX + 1] = 48
    /\ Len(events[2].bytes) = 50

(***************************************************************************)
(* C24: each time vCORE_Run calls ucCOMM_WaitForMessage the receive index  *)
(* g_ucRXBufferIndex is 0, whatever the earlier exchanges were, rejected   *)
(* frames included.                                                        *)
(***************************************************************************)
C24_IndexZeroAtBoundary ==
    pc = "wait_msg" => g_ucRXBufferIndex = 0

(***************************************************************************)
(* SpecByteSeq: a sequence of calls of the byte routines and of             *)
(* ucCOMM_WaitForStartCondition from the state vCOMM_Init leaves.  The     *)
(* first byte received is any of the 512 sequences of 9 bits; the calls    *)
(* after it take their bytes from SeqBytes.                                *)
(***************************************************************************)
MaxByteCalls == 2

SeqBytes == {0, 1, 255}

InitByteSeq ==
    /\ pc = "seq"
    /\ InitComm /\ InitCore /\ InitCp /\ InitSend /\ InitStm
    /\ byteIo = [fn |-> "none", n |-> 0]

\* the peer drives the bits of ch and the parity bit par; noise is the level
\* of the neighbouring pin of the port, junk the uninitialised ucRXByte
SeqReceiveByte ==
    /\ pc = "seq"
    /\ byteIo.n < MaxByteCalls
    /\ \E ch \in (IF byteIo.n = 0 THEN Byte ELSE SeqBytes), par \in {0, 1},
          noise \in {0, 1}, junk \in {0, 255} :
         LET s == [k \in 1..9 |->
                      noise + SDA_PIN * (IF k = 9 THEN par ELSE BitOf(ch, k - 1))]
             r == ucCOMM_ReceiveByte([flags |-> g_ucCOMM_Flags, buf |-> g_ucaRXBuffer,
                                      idx |-> g_ucRXBufferIndex, overrun |-> rxOverrun],
                                     s, junk)
         IN  /\ byteIo' = [fn |-> "receive", n |-> byteIo.n + 1, ch |-> ch,
                           par |-> par, idx |-> g_ucRXBufferIndex, ret |-> r.ret,
                           ack |-> r.ack, released |-> r.released]
             /\ g_ucCOMM_Flags' = r.st.flags
             /\ g_ucaRXBuffer' = r.st.buf
             /\ g_ucRXBufferIndex' = r.st.idx
             /\ rxOverrun' = r.st.overrun
    /\ UNCHANGED <<pc, stmVars, ucRXMessageSize, coreVars, cpVars, sendVars>>

SeqSendByte ==
    /\ pc = "seq"
    /\ byteIo.n < MaxByteCalls
    /\ \E ch \in SeqBytes, p1in \in {0, SDA_PIN} :
         LET r == ucCOMM_SendByte(g_ucCOMM_Flags, ch, p1in)
         IN  /\ byteIo' = [fn |-> "send", n |-> byteIo.n + 1, ch |-> ch,
                           ret |-> r.ret]
             /\ g_ucCOMM_Flags' = r.flags
    /\ UNCHANGED <<pc, stmVars, g_ucaRXBuffer, g_ucRXBufferIndex, rxOverrun,
                   ucRXMessageSize, coreVars, cpVars, sendVars>>

\* comm.c:138-171, ended by a wake that is not a start condition
SeqWaitForStart ==
    /\ pc = "seq"
    /\ byteIo.n < MaxByteCalls
    /\ LET w == WaitForStartReturn(WaitForStartEnter(g_ucCOMM_Flags))
       IN  /\ byteIo' = [fn |-> "wait_start", n |-> byteIo.n + 1, ret |-> w.ret]
           /\ g_ucCOMM_Flags' = w.flags
    /\ UNCHANGED <<pc, stmVars, g_ucaRXBuffer, g_ucRXBufferIndex, rxOverrun,
                   ucRXMessageSize, coreVars, cpVars, sendVars>>

NextByteSeq == SeqReceiveByte \/ SeqSendByte \/ SeqWaitForStart

SpecByteSeq == InitByteSeq /\ [][NextByteSeq]_vars

ParityErr == BitAnd(g_ucCOMM_Flags, COMM_PARITY_ERR) # 0

(***************************************************************************)
(* C28: ucCOMM_ReceiveByte stores the 8 data bits it sampled, the first in *)
(* bit 0, at g_ucaRXBuffer[index], adds 1 to the index and returns COMM_OK *)
(* whether or not the parity matches; it answers ACK (line low) exactly    *)
(* when the number of 1 data bits mod 2 equals the parity bit sampled,     *)
(* NACK otherwise, and releases the line; a mismatch sets COMM_PARITY_ERR, *)
(* and no receive, send or wait for a start condition clears the flag.     *)
(***************************************************************************)
C28_ReceiveByteParity ==
    /\ [](byteIo.fn = "receive" =>
              /\ byteIo.ret = COMM_OK
              /\ g_ucaRXBuffer[byteIo.idx] = byteIo.ch
              /\ g_ucRXBufferIndex = byteIo.idx + 1
              /\ byteIo.ack = (IF Parity8(byteIo.ch, 8) = byteIo.par THEN 0 ELSE 1)
              /\ byteIo.released
              /\ Parity8(byteIo.ch, 8) # byteIo.par => ParityErr)
    /\ [][ParityErr => ParityErr']_vars

\* a byte with a parity mismatch was received and stored, and a send followed
C28_Witness ==
    /\ byteIo.fn = "send"
    /\ byteIo.n = 2
    /\ ParityErr
    /\ g_ucRXBufferIndex = 1
    /\ g_ucaRXBuffer[0] = 131

(***************************************************************************)
(* C25: while the main loop is outside the cSTM_ calls (vCORE_Run waits    *)
(* for a start condition or exchanges a message with the CP) the sensor    *)
(* receiver is not active: g_ucSTM_RXBusy is clear and the compare         *)
(* interrupt of the bit timer is disabled, whatever edges and timer        *)
(* expiries came before.                                                   *)
(***************************************************************************)
C25_ReceiverIdleOutsideCalls ==
    pc = "stm_idle" => g_ucSTM_RXBusy = 0 /\ ~TBCCTL1_CCIE

(***************************************************************************)
(* C26: the main-loop code of a cSTM_ call (the call itself, the checksum  *)
(* test, the parser) writes g_ucSTM_RXBufferIndex or g_ucaSTM_RXBuffer     *)
(* only in states where g_ucSTM_RXBusy is clear.                           *)
(***************************************************************************)
C26_NoMainWriteWhileBusy ==
    call.fn \in {"measure", "type"} => ~call.busyWrite

\* a byte is being received: the start edge has been served and the bit
\* timer runs with its compare interrupt enabled
Receiving == g_ucSTM_RXBusy = 1 /\ TBCCTL1_CCIE /\ TBCTL_MC /\ pc # "undefined"

\* the start edge: the receiver goes from idle to busy
StartEdgeStep == g_ucSTM_RXBusy = 0 /\ g_ucSTM_RXBusy' = 1

(***************************************************************************)
(* C27: a start edge with the receiver idle disables the edge interrupt    *)
(* and leaves 8 samples to take; the receiver stays busy, the edge         *)
(* interrupt disabled, through the expiries that take them; after the      *)
(* eighth sample the slot g_ucaSTM_RXBuffer[index] holds the byte on the   *)
(* line (first sample in bit 0, eighth in bit 7), whatever it held before; *)
(* the ninth expiry, and no other step, clears the busy flag, adds 1 to    *)
(* the index and enables the edge interrupt again.                         *)
(***************************************************************************)
C27_NineExpiriesPerByte ==
    /\ [][StartEdgeStep => (~stmRxIE' /\ g_ucSTM_RXBitsLeft' = 8)]_vars
    /\ [][(g_ucSTM_RXBusy = 1 /\ g_ucSTM_RXBitsLeft # 0) =>
              g_ucSTM_RXBusy' = 1]_vars
    /\ [][(g_ucSTM_RXBusy = 1 /\ g_ucSTM_RXBusy' = 0) =>
              /\ g_ucSTM_RXBitsLeft = 0
              /\ g_ucSTM_RXBufferIndex' = g_ucSTM_RXBufferIndex + 1
              /\ stmRxIE']_vars
    /\ [](Receiving => g_ucSTM_RXBufferIndex < RX_BUFFER_SIZE_STM)
    /\ []((Receiving /\ g_ucSTM_RXBitsLeft = 0) =>
              /\ g_ucSTM_RXBufferIndex < RX_BUFFER_SIZE_STM
              /\ g_ucaSTM_RXBuffer[g_ucSTM_RXBufferIndex] = sensor.cur)
    /\ [](Receiving => ~stmRxIE)

\* the step that enters cSTM_Measure or cSTM_RequestSensorType
CallStep == pc = "stm_idle" /\ pc' = "stm_asleep"

(***************************************************************************)
(* C29: every call of cSTM_Measure or cSTM_RequestSensorType starts its    *)
(* reception with g_ucSTM_RXBufferIndex = 0 and with the receive buffer as *)
(* vSTM_Initialize leaves it, holding no byte of an earlier measurement.   *)
(***************************************************************************)
C29_FreshBufferPerCall ==
    [][CallStep => /\ g_ucSTM_RXBufferIndex' = 0
                   /\ g_ucaSTM_RXBuffer' = BufferWith(<<>>)]_vars

\* the step in which the cSTM_ call returns
ReturnStep == pc = "stm_awake" /\ pc' = "stm_idle"

(***************************************************************************)
(* C30: when cSTM_Measure or cSTM_RequestSensorType returns, with 0, 1 or  *)
(* 2, the excitation pin of the channel it measured is low, the edge       *)
(* interrupt of the channel's pin is disabled and the bit timer is         *)
(* stopped; in every state at most one excitation pin is high.             *)
(***************************************************************************)
C30_ChannelOffAtReturn ==
    /\ [][ReturnStep => /\ call'.ret \in {0, 1, 2}
                        /\ call.ch \notin P_STM_PWR_OUT'
                        /\ ~stmRxIE'
                        /\ ~TBCTL_MC']_vars
    /\ [](Cardinality(P_STM_PWR_OUT) <= 1)

\* the second call, on the other channel, has returned 1 after the first
\* returned on channel 1
C30_Witness ==
    /\ Returned
    /\ call.n = 2
    /\ call.fn = "type"
    /\ call.ch = 2
    /\ call.ret = 1
    /\ P_STM_PWR_OUT = {}
    /\ ~stmRxIE
    /\ ~TBCTL_MC

C32_RxIndexInBuffer ==
    /\ g_ucRXBufferIndex <= MAXMSGLEN
    /\ ~rxOverrun

(***************************************************************************)
(* C33: when a bit-timer expiry is about to store a sample (the receiver   *)
(* busy, 1 to 8 bits left), g_ucSTM_RXBufferIndex is below                 *)
(* RX_BUFFER_SIZE_STM, however many bytes the sensor sends.                *)
(***************************************************************************)
C33_StoreInsideBuffer ==
    (Receiving /\ g_ucSTM_RXBitsLeft \in 1..8) =>
        g_ucSTM_RXBufferIndex < RX_BUFFER_SIZE_STM

(***************************************************************************)
(* C34: while an accepted COMMAND_PKT is processed, the parameter copy     *)
(* (core.c:286-298) writes no element after ucParam[19] and reads          *)
(* ucaMsg_Buff at no index greater than or equal to the declared length,   *)
(* whatever the payload holds.                                             *)
(***************************************************************************)
\* the indices the loop uses from ucMsgBuffIdx = idx on stay below the
\* declared length and every parameter count stays below 20
RECURSIVE ParamCopyInside(_, _)
ParamCopyInside(buf, idx) ==
    IF idx >= buf[MSG_LEN_IDX] THEN TRUE
    ELSE /\ idx + 1 < buf[MSG_LEN_IDX]
         /\ buf[idx + 1] <= 20
         /\ idx + 2 + buf[idx + 1] <= buf[MSG_LEN_IDX]
         /\ ParamCopyInside(buf, idx + 2 + buf[idx + 1])

CommandProcessed ==
    /\ frame.kind = "wellformed"
    /\ FrameType(frame) = COMMAND_PKT
    /\ Len(events) >= 2
    /\ events[1] = [op |-> "grab", ret |-> COMM_OK]
    /\ events[2].op = "send"

C34_ParamCopyInBounds ==
    CommandProcessed => ParamCopyInside(ucaMsg_Buff, MSG_PAYLD_IDX)

(***************************************************************************)
(* SpecParse: the two routines cSTM_Measure calls after its wait loop has  *)
(* seen the terminator (STM.c:187-194), cSTM_Test_Checksum and, when that  *)
(* returns 0, cSTM_ReadValue, on the buffer as the reception left it: the  *)
(* bytes of the line from index 0 and behind them what the array held      *)
(* before (zero after start-up).                                           *)
(***************************************************************************)
\* the line a sensor of the given type sends for the text body: body, CR,
\* type, checksum, CR, LF
SensorLine(body, type) ==
    [type |-> type, moisture |-> 0, temp |-> 0, ok |-> TRUE,
     bytes |-> body \o <<13, type, ((SumSeq(body) + 13 + type) % 64) + 32, 13, 10>>]

\* a 5TE line: moisture, conductivity and temperature
Line5TE(moisture, ec, temp) ==
    [SensorLine(Digits(moisture) \o <<32>> \o Digits(ec) \o <<32>> \o Digits(temp),
                FIVETE)
     EXCEPT !.moisture = moisture, !.temp = temp]

ParseLines ==
    {Line5TM(m, t, 0) : m \in {5, 12, 123, 1234}, t \in {7, 56, 567}}
    \cup {Line5TE(m, e, t) : m \in {5, 12, 123}, e \in {4, 45}, t \in {7, 678}}
    \cup { \* MPS6: "-12.3 21.5", "12.3 21.5" and "-12.3 -1.5"
           SensorLine(<<45, 49, 50, 46, 51, 32, 50, 49, 46, 53>>, MPS6),
           SensorLine(<<49, 50, 46, 51, 32, 50, 49, 46, 53>>, MPS6),
           SensorLine(<<45, 49, 50, 46, 51, 32, 45, 49, 46, 53>>, MPS6),
           \* no carriage return, and one at index 0 only
           [type |-> 0, moisture |-> 0, temp |-> 0, ok |-> FALSE, bytes |-> <<65, 66, 10>>],
           [type |-> 0, moisture |-> 0, temp |-> 0, ok |-> FALSE,
            bytes |-> <<13, FIVETM, 10>>],
           \* a carriage return at index 0 and the end of a line behind it
           SensorLine(<<>>, FIVETM) }

InitParse ==
    /\ pc = "parse_line"
    /\ InitComm /\ InitCore /\ InitCp /\ InitSend
    /\ byteIo = NoByteIo
    /\ \E l \in ParseLines, rest \in {0, 255} :
         /\ g_ucaSTM_RXBuffer
              = [i \in 0..(RX_BUFFER_SIZE_STM - 1) |->
                   IF i < Len(l.bytes) THEN l.bytes[i + 1] ELSE rest]
         /\ g_ucSTM_RXBufferIndex = Len(l.bytes)
         /\ call = [fn |-> "parse", line |-> l, rest |-> rest, ret |-> 0]
    /\ g_ucSTM_RXBitsLeft = 255
    /\ g_ucSTM_RXBusy = 0
    /\ timeoutcounter = 2
    /\ lSTM_Soil = 0
    /\ nSTM_Temperature = 0
    /\ stmRxIE = FALSE
    /\ TBCCTL1_CCIE = TRUE
    /\ TBCTL_MC = FALSE
    /\ P_STM_RX_IFG = FALSE
    /\ P_STM_PWR_OUT = {}
    /\ sensor = [line |-> <<>>, cur |-> 10]

\* STM.c:187-189
ParseTestChecksum ==
    /\ pc = "parse_line"
    /\ LET chk == cSTM_Test_Checksum(g_ucaSTM_RXBuffer)
       IN  /\ g_ucSTM_RXBufferIndex' = chk.idx
           /\ call' = [call EXCEPT !.ret = chk.ret]
           /\ pc' = IF chk.fault THEN "undefined"
                    ELSE IF chk.ret # 0 THEN "parse_rejected" ELSE "parse_checked"
    /\ UNCHANGED <<commVars, coreVars, cpVars, sendVars, byteIo, g_ucaSTM_RXBuffer,
                   g_ucSTM_RXBitsLeft, g_ucSTM_RXBusy, timeoutcounter, lSTM_Soil,
                   nSTM_Temperature, stmRxIE, TBCCTL1_CCIE, TBCTL_MC, P_STM_RX_IFG,
                   P_STM_PWR_OUT, sensor>>

\* STM.c:191-194
ParseReadValue ==
    /\ pc = "parse_checked"
    /\ LET rd == cSTM_ReadValue(g_ucaSTM_RXBuffer, lSTM_Soil, nSTM_Temperature)
       IN  /\ g_ucSTM_RXBufferIndex' = rd.idx
           /\ lSTM_Soil' = rd.soil
           /\ nSTM_Temperature' = rd.temp
           /\ pc' = IF rd.fault THEN "undefined" ELSE "parse_done"
    /\ UNCHANGED <<commVars, coreVars, cpVars, sendVars, byteIo, g_ucaSTM_RXBuffer,
                   g_ucSTM_RXBitsLeft, g_ucSTM_RXBusy, timeoutcounter,
                   stmRxIE, TBCCTL1_CCIE, TBCTL_MC, P_STM_RX_IFG,
                   P_STM_PWR_OUT, sensor, call>>

NextParse ==
    \/ ParseTestChecksum
    \/ ParseReadValue

SpecParse == InitParse /\ [][NextParse]_vars

(***************************************************************************)
(* C35: cSTM_Test_Checksum and cSTM_ReadValue come to an end and read      *)
(* g_ucaSTM_RXBuffer at the indices 0..19 only, whatever line the          *)
(* reception left in the buffer.                                           *)
(***************************************************************************)
C35_ParseInsideBuffer == call.fn = "parse" => pc # "undefined"

(***************************************************************************)
(* C36: for every byte b the nine levels ucCOMM_SendByte drives for b      *)
(* (bit 0 first, then the parity bit), sampled by ucCOMM_ReceiveByte, are  *)
(* stored as b, answered with ACK (data line low) and leave                *)
(* COMM_PARITY_ERR clear.                                                  *)
(***************************************************************************)
\* the receiver sampled what ucCOMM_SendByte drives for byteIo.ch
SampledSentByte ==
    /\ byteIo.fn = "receive"
    /\ byteIo.ret = COMM_OK
    /\ LET sent == ucCOMM_SendByte(COMM_RUNNING, byteIo.ch, 0).bits
       IN  /\ \A k \in 1..8 : sent[k] = BitOf(byteIo.ch, k - 1)
           /\ sent[9] = byteIo.par

C36_SendReceiveRoundTrip ==
    SampledSentByte =>
        /\ g_ucRXBufferIndex = 1
        /\ g_ucaRXBuffer[0] = byteIo.ch
        /\ byteIo.ack = 0
        /\ BitAnd(g_ucCOMM_Flags, COMM_PARITY_ERR) = 0

C36_Witness ==
    /\ SampledSentByte
    /\ byteIo.ch = 167
    /\ byteIo.par = 1
    /\ g_ucaRXBuffer[0] = 167
    /\ byteIo.ack = 0

(***************************************************************************)
(* C37: a REQUEST_DATA processed before any COMMAND_PKT has been processed *)
(* since start-up is answered with the type REPORT_DATA.                   *)
(***************************************************************************)
C37_FirstReportIsData ==
    (Answered(REQUEST_DATA) /\ PastCommands = {}) =>
        /\ Len(events) = 2
        /\ events[2].op = "send"
        /\ events[2].bytes[1] = REPORT_DATA

(***************************************************************************)
(* C38: the response to REQUEST_SENSOR_TYPE has a length byte that covers  *)
(* the four type bytes (header size + 4), and the bytes 4..7 sent are the  *)
(* sensor types of the channels 1..4.                                      *)
(***************************************************************************)
C38_SensorTypeResponse ==
    (Answered(REQUEST_SENSOR_TYPE) /\ Len(events) = 2 /\ ~events[2].aborted) =>
        /\ events[2].op = "send"
        /\ Len(events[2].bytes) >= SP_HEADERSIZE + 4
        /\ events[2].bytes[MSG_LEN_IDX + 1] = SP_HEADERSIZE + 4
        /\ \A c \in 1..4 : events[2].bytes[SP_HEADERSIZE + c] = uiSTM_type[c]

(***************************************************************************)
(* SpecSlot: one call of a transducer handler uiMain_STM1 .. uiMain_STM4   *)
(* through uiMainDispatch (main.c:160-463, 672-705) on the report slots    *)
(* as they are at start-up, for a measurement drawn from the int32 and     *)
(* int16 values around the thresholds of the handlers.                     *)
(***************************************************************************)
SoilValues ==
    {0, 1, 127, 128, 255, 32767, 32768, 65535, 8388607, 8388608, 2147483647,
     -1, -128, -129, -32768, -32769, -8388608, -8388609, -2147483647 - 1}

SlotMeasurements ==
    {[cResult |-> 0, lSoil |-> v, iTemperature |-> t] : v \in SoilValues, t \in {231, -5}}
    \cup {[cResult |-> r, lSoil |-> 0, iTemperature |-> 0] : r \in {1, 2}}

InitSlot ==
    /\ pc = "slot_call"
    /\ InitComm /\ InitCore /\ InitCp /\ InitSend /\ InitStm
    /\ \E k \in 1..NUM_TRANSDUCERS, m \in SlotMeasurements :
         byteIo = [fn |-> "handler", ch |-> k, meas |-> m]

SlotDispatch ==
    /\ pc = "slot_call"
    /\ LET d == uiMainDispatch(byteIo.ch, S_Report,
                               [c \in 1..NUM_TRANSDUCERS |-> byteIo.meas])
       IN  S_Report' = d.S
    /\ pc' = "slot_done"
    /\ UNCHANGED <<stmVars, commVars, ucaMsg_Buff, unTransducerReturn, ucCommState, uiHID,
                   infoD, uiSTM_type, cpVars, sendVars, byteIo>>

NextSlot == SlotDispatch

SpecSlot == InitSlot /\ [][NextSlot]_vars

(***************************************************************************)
(* C39: for every signed 32-bit moisture value v of a successful           *)
(* measurement the length n of the report slot is in 1..4 and the first n  *)
(* data bytes, read as a big-endian two's-complement integer of n bytes,   *)
(* are v.                                                                  *)
(***************************************************************************)
\* the bytes i..n of the slot as an unsigned big-endian number
RECURSIVE TailValue(_, _, _)
TailValue(slot, i, n) ==
    IF i > n THEN 0 ELSE slot.m_ucaData[i] * Pow256(n - i) + TailValue(slot, i + 1, n)

\* the first n bytes of the slot as a two's-complement big-endian number
SignedSlotValue(slot, n) ==
    (slot.m_ucaData[1] - (IF slot.m_ucaData[1] >= 128 THEN 256 ELSE 0)) * Pow256(n - 1)
        + TailValue(slot, 2, n)

HandlerStored ==
    /\ pc = "slot_done"
    /\ byteIo.fn = "handler"
    /\ byteIo.meas.cResult = 0

C39_SlotKeepsSignedValue ==
    HandlerStored =>
        LET slot == S_Report[2 * byteIo.ch - 1]
        IN  /\ slot.m_ucLength \in 1..4
            /\ \A i \in 1..4 : slot.m_ucaData[i] \in 0..255
            /\ SignedSlotValue(slot, slot.m_ucLength) = byteIo.meas.lSoil

C39_Witness ==
    /\ HandlerStored
    /\ byteIo.meas.lSoil = 32768
    /\ S_Report[2 * byteIo.ch - 1].m_ucLength = 3
    /\ SubSeq(S_Report[2 * byteIo.ch - 1].m_ucaData, 1, 3) = <<0, 128, 0>>

(***************************************************************************)
(* C40: from a 5TE line (three decimal fields separated by spaces, CR,     *)
(* 'z') cSTM_ReadValue takes the temperature reading from the last field   *)
(* and the moisture reading from the first field; the middle field and the *)
(* spaces add to neither.                                                  *)
(***************************************************************************)
C40_ReadValue5TE ==
    (pc = "parse_done" /\ call.fn = "parse" /\ call.line.type = FIVETE) =>
        /\ nSTM_Temperature = call.line.temp
        /\ lSTM_Soil = call.line.moisture

====
